---- MODULE Spec2Model ----
(***************************************************************************)
(* Model of python_parse: the type-directed parser of                      *)
(* src/python_parse/parse.py with the default converters of                *)
(* src/python_parse/converters.py and the core unpackers of                *)
(* src/python_parse/generics_unpack.py.                                    *)
(*                                                                         *)
(* Python values and type annotations are modelled as tagged records, the  *)
(* functions of the package as (mutually recursive) operators that thread  *)
(* a log of converter invocations, and Python exceptions as results of     *)
(* kind "raise" that every caller propagates.                              *)
(***************************************************************************)
EXTENDS Integers, Sequences, FiniteSets, TLC

(***************************************************************************)
(* Bounds of the model.                                                    *)
(***************************************************************************)
\* longest raw sequence (list / tuple) that is enumerated
MaxLen == 2
\* largest integer payload that is enumerated
MaxInt == 1
\* nesting depth of the raw mappings handed to self-referential classes
MaxDepth == 3

(***************************************************************************)
(* Python values.                                                          *)
(*   int   : [k, cls, n]     cls is "int" or a subclass of int ("Age")     *)
(*   str   : [k, s]          s is the sequence of the characters           *)
(*   None  : [k]                                                           *)
(*   list  : [k, items]      tuple : [k, items]                            *)
(*   dict  : [k, entries]    entries is a sequence of <<key, value>> in    *)
(*                           insertion order, keys pairwise different      *)
(*   obj   : [k, cls, attrs] instance of a record class; attrs as entries  *)
(*   ...   : [k]             the Ellipsis object                           *)
(***************************************************************************)
VInt(n) == [k |-> "int", cls |-> "int", n |-> n]
VSubInt(c, n) == [k |-> "int", cls |-> c, n |-> n]
VStr(s) == [k |-> "str", s |-> s]
NoneV == [k |-> "none"]
EllipsisV == [k |-> "ellipsis"]
VList(items) == [k |-> "list", items |-> items]
VTuple(items) == [k |-> "tuple", items |-> items]
VDict(entries) == [k |-> "dict", entries |-> entries]
VObj(c, attrs) == [k |-> "obj", cls |-> c, attrs |-> attrs]
\* an instance of the generic class of the caller
BoxV == VObj("Box", <<>>)

(***************************************************************************)
(* Type annotations (shapes).                                              *)
(*   class          : [t, name]                                            *)
(*   generic alias  : [t, origin, args]    list[int], tuple[int, ...]      *)
(*   union          : [t, flavour, args]   flavour "typing" is             *)
(*                    typing.Union / Optional, "pipe" is X | Y             *)
(*   Ellipsis       : [t]                  second argument of tuple[T,...] *)
(***************************************************************************)
Cls(name) == [t |-> "cls", name |-> name]
Gen(origin, args) == [t |-> "gen", origin |-> origin, args |-> args]
TypingUnion(args) == [t |-> "union", flavour |-> "typing", args |-> args]
PipeUnion(args) == [t |-> "union", flavour |-> "pipe", args |-> args]
EllipsisT == [t |-> "ellipsis"]

TInt == Cls("int")
TStr == Cls("str")
TNone == Cls("NoneType")
TDict == Cls("dict")
TList == Cls("list")
TAge == Cls("Age")
ListOf(a) == Gen("list", <<a>>)
TupleOf(args) == Gen("tuple", args)
VarTupleOf(a) == Gen("tuple", <<a, EllipsisT>>)
DictOf(a, b) == Gen("dict", <<a, b>>)
Optional(a) == TypingUnion(<<a, TNone>>)
\* _Generic[int]: a generic class of the caller, no core unpacker knows it
TBox == Gen("Box", <<TInt>>)
OrNone(a) == PipeUnion(<<a, TNone>>)

(***************************************************************************)
(* Results that are not values: the NoMatch marker, the ResolveWithParser  *)
(* continuation (by names the converter that built it, source and target   *)
(* are what its closure captured) and a raised exception.                  *)
(***************************************************************************)
NoMatch == [k |-> "nomatch"]
ResolveWithParser(by, source, target) == [k |-> "resolve", by |-> by, source |-> source, target |-> target]
NoShape == [t |-> "none"]
Raise(err, key, typ) == [k |-> "raise", err |-> err, key |-> key, typ |-> typ]
BareTypeError == Raise("TypeError", "", NoShape)
IsRaise(r) == r.k = "raise"

\* a result together with the log of converter invocations made so far
R(res, log) == [res |-> res, log |-> log]

(***************************************************************************)
(* Classes: the builtins, Age (a subclass of int, as in the tests) and the *)
(* record classes of the field catalog.                                    *)
(***************************************************************************)
IsSubclass(c, d) == c = d \/ d = "object" \/ (c = "Age" /\ d = "int")

ClassOf(v) ==
  CASE v.k = "int" -> v.cls
    [] v.k = "str" -> "str"
    [] v.k = "none" -> "NoneType"
    [] v.k = "list" -> "list"
    [] v.k = "tuple" -> "tuple"
    [] v.k = "dict" -> "dict"
    [] v.k = "obj" -> v.cls
    [] OTHER -> "ellipsis"

\* isinstance(v, collections.abc.Iterable)
IsIterable(v) == v.k \in {"str", "list", "tuple", "dict"}

\* tuple(v) for an iterable v: characters of a str, keys of a dict
Iterate(v) ==
  CASE v.k = "str" -> [i \in 1..Len(v.s) |-> VStr(<<v.s[i]>>)]
    [] v.k = "dict" -> [i \in 1..Len(v.entries) |-> v.entries[i][1]]
    [] OTHER -> v.items

\* dict lookup helpers; entries are <<key, value>> pairs
HasKey(d, key) == \E i \in 1..Len(d.entries) : d.entries[i][1] = key
GetItem(d, key) == d.entries[CHOOSE i \in 1..Len(d.entries) : d.entries[i][1] = key][2]
SetItem(entries, key, val) ==
  IF \E i \in 1..Len(entries) : entries[i][1] = key
  THEN [i \in 1..Len(entries) |-> IF entries[i][1] = key THEN <<key, val>> ELSE entries[i]]
  ELSE Append(entries, <<key, val>>)

\* hash(v) raises TypeError for a list or a dict: they cannot be dict keys
IsHashable(v) == v.k \notin {"list", "dict"}

\* typing.get_origin: "" stands for None
get_origin(t) ==
  CASE t.t = "gen" -> t.origin
    [] t.t = "union" -> (IF t.flavour = "typing" THEN "typing.Union" ELSE "UnionType")
    [] OTHER -> ""

\* typing.get_args
get_args(t) == IF t.t \in {"gen", "union"} THEN t.args ELSE <<>>

\* "origin is None or not issubclass(origin, base)" as the converters and
\* unpackers evaluate it: "no" (the test passes, NoMatch), "yes" (origin is
\* a subclass of base) or "raise" (issubclass(typing.Union, base) raises
\* TypeError: typing.Union is not a class)
OriginIs(t, base) ==
  IF get_origin(t) = "" THEN "no"
  ELSE IF get_origin(t) = "typing.Union" THEN "raise"
  ELSE IF IsSubclass(get_origin(t), base) THEN "yes" ELSE "no"

\* the "len(args) == 2 and isinstance(args[1], EllipsisType)" test
IsVariadic(args) == Len(args) = 2 /\ args[2] = EllipsisT

(***************************************************************************)
(* isinstance(v, t) of Python 3.11: "true", "false" or "raise" (TypeError  *)
(* for a parameterized generic or a non-type).  A union is scanned left to *)
(* right and stops at the first member that accepts or raises.             *)
(***************************************************************************)
RECURSIVE ScanUnion(_, _, _)
ScanUnion(v, args, i) ==
  IF i > Len(args) THEN "false"
  ELSE IF args[i].t # "cls" THEN "raise"
  ELSE IF IsSubclass(ClassOf(v), args[i].name) THEN "true"
  ELSE ScanUnion(v, args, i + 1)

IsInstance(v, t) ==
  CASE t.t = "cls" -> (IF IsSubclass(ClassOf(v), t.name) THEN "true" ELSE "false")
    [] t.t = "union" -> ScanUnion(v, t.args, 1)
    [] OTHER -> "raise"

_isinstance(value, target_type) ==
  IF IsInstance(value, target_type) = "raise"
  THEN value = EllipsisV /\ target_type = EllipsisT
  ELSE IsInstance(value, target_type) = "true"

\* optional flag and the non-None members of a union, else the type itself
_unpack_union(target_type) ==
  IF target_type.t = "union"
  THEN [optional |-> \E i \in 1..Len(target_type.args) : target_type.args[i] = TNone,
        types |-> SelectSeq(target_type.args, LAMBDA a : a # TNone)]
  ELSE [optional |-> FALSE, types |-> <<target_type>>]

(***************************************************************************)
(* Generic unpackers (generics_unpack.py).  An unpacker returns NoMatch,   *)
(* the element groups [k |-> "groups", groups |-> <<...>>], one group per   *)
(* type argument, or raises.                                               *)
(***************************************************************************)
Groups(g) == [k |-> "groups", groups |-> g]

unpack_to_list(parsed, target_type) ==
  IF ~IsIterable(parsed) THEN NoMatch
  ELSE IF OriginIs(target_type, "list") = "raise" THEN BareTypeError
  ELSE IF OriginIs(target_type, "list") = "no" THEN NoMatch
  ELSE Groups(<<Iterate(parsed)>>)

unpack_to_tuple(parsed, target_type) ==
  IF ~IsIterable(parsed) THEN NoMatch
  ELSE IF OriginIs(target_type, "tuple") = "raise" THEN BareTypeError
  ELSE IF OriginIs(target_type, "tuple") = "no" THEN NoMatch
  ELSE IF IsVariadic(get_args(target_type))
       THEN Groups(<<Iterate(parsed), <<EllipsisV>>>>)
       ELSE Groups([i \in 1..Len(Iterate(parsed)) |-> <<Iterate(parsed)[i]>>])

unpack_dict(parsed, target_type) ==
  IF parsed.k # "dict" THEN NoMatch
  ELSE IF OriginIs(target_type, "dict") = "raise" THEN BareTypeError
  ELSE IF OriginIs(target_type, "dict") = "no" THEN NoMatch
  ELSE Groups(<<[i \in 1..Len(parsed.entries) |-> parsed.entries[i][1]],
                [i \in 1..Len(parsed.entries) |-> parsed.entries[i][2]]>>)

CORE_UNPACKERS == <<"unpack_to_list", "unpack_to_tuple", "unpack_dict">>

(***************************************************************************)
(* Unpackers a caller may hand to the factory (TUnpackGenericFunc):        *)
(*   unpack_box  knows the generic class Box of the caller: a Box instance *)
(*               holds no elements, so one empty group for its argument    *)
(*   unpack_any  answers for every generic kind, the core ones included:   *)
(*               one empty group per type argument                         *)
(***************************************************************************)
unpack_box(parsed, target_type) ==
  IF ClassOf(parsed) # "Box" THEN NoMatch
  ELSE IF get_origin(target_type) # "Box" THEN NoMatch
  ELSE Groups(<< <<>> >>)

unpack_any(parsed, target_type) == Groups([i \in 1..Len(get_args(target_type)) |-> <<>>])

\* call of one unpacker of the tuple handed to _get_parser
ApplyUnpacker(unpacker, value, target_type) ==
  CASE unpacker = "unpack_to_list" -> unpack_to_list(value, target_type)
    [] unpacker = "unpack_to_tuple" -> unpack_to_tuple(value, target_type)
    [] unpacker = "unpack_dict" -> unpack_dict(value, target_type)
    [] unpacker = "unpack_box" -> unpack_box(value, target_type)
    [] unpacker = "unpack_any" -> unpack_any(value, target_type)
    [] OTHER -> NoMatch

\* reduce(unpack, unpackers, NoMatch()): the first result that is not
\* NoMatch; later unpackers are not called; an exception propagates
RECURSIVE _unpack_values(_, _, _, _)
_unpack_values(value, target_type, unpackers, i) ==
  IF i > Len(unpackers) THEN NoMatch
  ELSE IF ApplyUnpacker(unpackers[i], value, target_type) = NoMatch
       THEN _unpack_values(value, target_type, unpackers, i + 1)
       ELSE ApplyUnpacker(unpackers[i], value, target_type)

(***************************************************************************)
(* _is_valid: "true", "false" or "raise" (a TypeError out of issubclass).  *)
(* AllValid walks the groups in order, each group's elements in order, and *)
(* stops at the first element that is invalid or raises.                   *)
(***************************************************************************)
RECURSIVE _is_valid(_, _, _)
RECURSIVE AllValid(_, _, _, _, _)
\* a walk that goes on after an element that is not valid, so that only
\* the number of groups counts; the validation law C27 tells it apart
AllValidNextLenient(v, groups, target_args, g, e, unpackers) ==
  IF v = "raise" THEN v ELSE AllValid(groups, target_args, g, e + 1, unpackers)

AllValidNext(v, groups, target_args, g, e, unpackers) ==
  IF v = "true" THEN AllValid(groups, target_args, g, e + 1, unpackers) ELSE v

AllValid(groups, target_args, g, e, unpackers) ==
  IF g > Len(groups) THEN "true"
  ELSE IF e > Len(groups[g]) THEN AllValid(groups, target_args, g + 1, 1, unpackers)
  ELSE AllValidNext(_is_valid(groups[g][e], target_args[g], unpackers), groups, target_args, g, e, unpackers)

\* a validation that accepts a value when no unpacker answers for the
\* generic kind; the fail-closed rule C16 tells it apart
CheckGroupsFailOpen(elements_arg_groups, target_args, unpackers) ==
  IF IsRaise(elements_arg_groups) THEN "raise"
  ELSE IF elements_arg_groups = NoMatch THEN "true"
  ELSE IF Len(target_args) # Len(elements_arg_groups.groups) THEN "false"
  ELSE AllValid(elements_arg_groups.groups, target_args, 1, 1, unpackers)

\* _is_valid once the unpackers have produced elements_arg_groups
CheckGroups(elements_arg_groups, target_args, unpackers) ==
  IF IsRaise(elements_arg_groups) THEN "raise"
  ELSE IF elements_arg_groups = NoMatch THEN "false"
  ELSE IF Len(target_args) # Len(elements_arg_groups.groups) THEN "false"
  ELSE AllValid(elements_arg_groups.groups, target_args, 1, 1, unpackers)

_is_valid(value, target_type, unpackers) ==
  IF _isinstance(value, target_type) THEN "true"
  ELSE IF get_origin(target_type) = "" THEN "false"
  ELSE CheckGroups(_unpack_values(value, target_type, unpackers, 1), get_args(target_type), unpackers)

\* any(_is_valid(parsed, arg, unpackers) for arg in target_union_args)
RECURSIVE AnyValid(_, _, _, _)
AnyValidNext(v, parsed, target_union_args, i, unpackers) ==
  IF v = "false" THEN AnyValid(parsed, target_union_args, i + 1, unpackers) ELSE v

AnyValid(parsed, target_union_args, i, unpackers) ==
  IF i > Len(target_union_args) THEN "false"
  ELSE AnyValidNext(_is_valid(parsed, target_union_args[i], unpackers), parsed, target_union_args, i, unpackers)

(***************************************************************************)
(* Converters (converters.py).  A converter is named by a descriptor       *)
(* [name, out]; out is used by the caller-supplied ones only.              *)
(***************************************************************************)
Converter(name) == [name |-> name, out |-> NoneV]

convert_value(source, target_type) ==
  CASE IsInstance(source, target_type) = "raise" -> BareTypeError
    [] IsInstance(source, target_type) = "false" -> NoMatch
    [] OTHER -> source

\* a converter with a guard that turns self-referential classes away; the
\* law of C29 tells it apart
convert_nested_guarded(source, target_type) ==
  IF source.k # "dict" \/ (target_type.t = "cls" /\ target_type.name \in {"Node", "Chain", "Tree"}) THEN NoMatch
  ELSE ResolveWithParser("nested", source, target_type)

convert_nested(source, target_type) ==
  IF source.k # "dict" THEN NoMatch
  ELSE ResolveWithParser("nested", source, target_type)

convert_dict(source, target_type) ==
  IF source.k # "dict" THEN NoMatch
  ELSE IF OriginIs(target_type, "dict") = "raise" THEN BareTypeError
  ELSE IF OriginIs(target_type, "dict") = "no" THEN NoMatch
  ELSE ResolveWithParser("dict", source, target_type)

convert_list(source, target_type) ==
  IF ~IsIterable(source) THEN NoMatch
  ELSE IF OriginIs(target_type, "list") = "raise" THEN BareTypeError
  ELSE IF OriginIs(target_type, "list") = "no" THEN NoMatch
  ELSE ResolveWithParser("list", source, target_type)

\* the slot types the tuple continuation pairs with the source elements
TupleArgs(target_type, len_source) ==
  IF IsVariadic(get_args(target_type))
  THEN [i \in 1..len_source |-> get_args(target_type)[1]]
  ELSE get_args(target_type)

\* convert_tuple without the comparison of the lengths: zip() would pair
\* the slots with the first elements; the arity law C7 tells it apart
convert_tuple_any_length(source, target_type) ==
  IF ~IsIterable(source) THEN NoMatch
  ELSE IF OriginIs(target_type, "tuple") = "raise" THEN BareTypeError
  ELSE IF OriginIs(target_type, "tuple") = "no" THEN NoMatch
  ELSE ResolveWithParser("tuple", source, target_type)

convert_tuple(source, target_type) ==
  IF ~IsIterable(source) THEN NoMatch
  ELSE IF OriginIs(target_type, "tuple") = "raise" THEN BareTypeError
  ELSE IF OriginIs(target_type, "tuple") = "no" THEN NoMatch
  ELSE IF Len(TupleArgs(target_type, Len(Iterate(source)))) # Len(Iterate(source)) THEN NoMatch
  ELSE ResolveWithParser("tuple", source, target_type)

DEFAULT_CONVERTERS == <<Converter("convert_tuple"), Converter("convert_list"), Converter("convert_dict"), Converter("convert_nested"), Converter("convert_value")>>

(***************************************************************************)
(* Caller-supplied converters, after the ones of tests/test_parse.py:      *)
(*   ident  returns the source unchanged whatever the target (str_to_float)*)
(*   const  returns the fixed value out (Mock(return_value=...))           *)
(*   age    match_age: Age(source) for an int source and a target that is  *)
(*          a subclass of Age, else NoMatch (issubclass(list[int], Age) is *)
(*          False: a builtin generic alias passes for a class; for the     *)
(*          typing alias Box[int] issubclass raises TypeError)             *)
(*   raise  raises its own exception (match_age_raise)                     *)
(*   lazy   returns a ResolveWithParser whose continuation yields out      *)
(*   box    returns a Box instance for a target Box[...], else NoMatch     *)
(***************************************************************************)
match_age(source, target_type) ==
  IF ~(source.k = "int") THEN NoMatch
  ELSE IF target_type.t = "gen" /\ target_type.origin = "Box" THEN BareTypeError
  ELSE IF target_type.t # "cls" THEN NoMatch
  ELSE IF ~IsSubclass(target_type.name, "Age") THEN NoMatch
  ELSE VSubInt("Age", source.n)

\* convert(value, target_type) for one converter of the chain
ApplyConverter(convert, source, target_type) ==
  CASE convert.name = "convert_tuple" -> convert_tuple(source, target_type)
    [] convert.name = "convert_list" -> convert_list(source, target_type)
    [] convert.name = "convert_dict" -> convert_dict(source, target_type)
    [] convert.name = "convert_nested" -> convert_nested(source, target_type)
    [] convert.name = "convert_value" -> convert_value(source, target_type)
    [] convert.name = "ident" -> source
    [] convert.name = "const" -> convert.out
    [] convert.name = "age" -> match_age(source, target_type)
    [] convert.name = "lazy" -> ResolveWithParser("custom", convert.out, target_type)
    [] convert.name = "box" -> (IF get_origin(target_type) = "Box" THEN BoxV ELSE NoMatch)
    [] OTHER -> Raise("ShouldNotBeUsed", "", NoShape)

\* one entry of the invocation log: converter number idx of the chain was
\* called with (value, target); out is "nomatch", "raise" or "match"
LogEntry(idx, convert, value, target_type, result) ==
  [idx |-> idx, conv |-> convert, value |-> value, target |-> target_type,
   out |-> IF result = NoMatch THEN "nomatch" ELSE IF IsRaise(result) THEN "raise" ELSE "match"]

\* for convert in converters: first result that is not NoMatch
RECURSIVE TryFrom(_, _, _, _, _)
\* a walk that does not stop at the first match but goes on to the end of
\* the chain; the chain order C8 tells it apart
TryNextToTheEnd(result, value, target_type, converters, i, log) ==
  IF result # NoMatch /\ i = Len(converters) THEN R(result, Append(log, LogEntry(i, converters[i], value, target_type, result)))
  ELSE TryFrom(value, target_type, converters, i + 1, Append(log, LogEntry(i, converters[i], value, target_type, result)))

TryNext(result, value, target_type, converters, i, log) ==
  IF result # NoMatch THEN R(result, Append(log, LogEntry(i, converters[i], value, target_type, result)))
  ELSE TryFrom(value, target_type, converters, i + 1, Append(log, LogEntry(i, converters[i], value, target_type, result)))

TryFrom(value, target_type, converters, i, log) ==
  IF i > Len(converters) THEN R(NoMatch, log)
  ELSE TryNext(ApplyConverter(converters[i], value, target_type), value, target_type, converters, i, log)

\* a walk that goes through the chain a second time when no converter
\* matched; the count of invocations of C22 tells it apart
_try_converters_twice(value, target_type, converters, log) == TryFrom(value, target_type, converters \o converters, 1, log)

_try_converters(value, target_type, converters, log) == TryFrom(value, target_type, converters, 1, log)

(***************************************************************************)
(* Field catalog (inspect.get_annotations) and object builder.             *)
(* Field names are single characters; the key of field "a" in a raw        *)
(* mapping is the str value KeyOf("a").                                    *)
(***************************************************************************)
KeyOf(name) == VStr(<<name>>)

TPerson == Cls("Person")
TAddress == Cls("Address")
THolder == Cls("Holder")
TTupleRec == Cls("TupleRec")
TMock == Cls("Mock")
TGuarded == Cls("Guarded")
\* classes whose annotations name the class itself: Node.n is Node or None,
\* Chain.n is a Chain, Tree.n is a list of Tree
TNode == Cls("Node")
TChain == Cls("Chain")
TTree == Cls("Tree")

\* declared fields of the record classes, in declaration order
Annotations(name) ==
  CASE name = "Person" -> << <<"a", TStr>>, <<"b", TInt>> >>
    [] name = "OptPerson" -> << <<"a", PipeUnion(<<TStr, TNone>>)>>, <<"b", Optional(TInt)>> >>
    [] name = "Address" -> << <<"a", TStr>> >>
    [] name = "Holder" -> << <<"a", Optional(TAddress)>>, <<"b", ListOf(Optional(TAddress))>> >>
    [] name = "UnionRec" -> << <<"a", PipeUnion(<<TInt, TStr>>)>>, <<"b", PipeUnion(<<ListOf(TInt), ListOf(TStr)>>)>> >>
    [] name = "TupleRec" -> << <<"a", TAge>>, <<"b", TupleOf(<<TInt, TStr>>)>> >>
    [] name = "Plain" -> << <<"a", TDict>>, <<"b", ListOf(OrNone(TStr))>> >>
    [] name = "Owner" -> << <<"a", TStr>>, <<"b", TAddress>> >>
    [] name = "Mock" -> << <<"a", TStr>>, <<"b", TBox>> >>
    [] name = "Guarded" -> << <<"a", TStr>> >>
    [] name = "Checked" -> << <<"a", TStr>> >>
    [] name = "Keeper" -> << <<"a", Optional(Cls("Checked"))>>, <<"b", TGuarded>> >>
    [] name = "Node" -> << <<"a", TStr>>, <<"n", Optional(TNode)>> >>
    [] name = "Chain" -> << <<"a", TStr>>, <<"n", TChain>> >>
    [] name = "Tree" -> << <<"a", TStr>>, <<"n", ListOf(TTree)>> >>
    [] OTHER -> <<>>

RecordClasses == {"Person", "OptPerson", "Address", "Holder", "UnionRec", "TupleRec", "Plain", "Owner", "Mock",
                  "Guarded", "Checked", "Keeper"}

\* attributes set in the class body without an annotation (species = "Human"
\* of the tests): Address carries b = "y"
ClassAttributes(name) ==
  IF name = "Address" THEN << <<"b", VStr(<<"y">>)>> >> ELSE <<>>

\* getattr(obj, name): the instance attribute, else the class attribute;
\* NoneV stands for AttributeError
HasAttr(attrs, name) == \E j \in 1..Len(attrs) : attrs[j][1] = name
AttrOf(attrs, name) == attrs[CHOOSE j \in 1..Len(attrs) : attrs[j][1] = name][2]
getattr(obj, name) ==
  IF HasAttr(obj.attrs, name) THEN AttrOf(obj.attrs, name)
  ELSE IF HasAttr(ClassAttributes(obj.cls), name) THEN AttrOf(ClassAttributes(obj.cls), name)
  ELSE NoneV

\* get_annotations(target_type): the declared fields; none for a builtin
\* class or a generic alias; TypeError for an X | Y union object
AnnotationsRaise(target_type) == target_type.t = "union"
get_annotations(target_type) == IF target_type.t = "cls" THEN Annotations(target_type.name) ELSE <<>>

\* an exception raised by the class itself while an instance is built: the
\* TypeError of Guarded.__init__(self, a) called without its argument, the
\* ValueError of Checked.__post_init__
BuilderError(err, cls) == Raise(err, "__init__", cls)

\* cls(): a record instance without attributes, or the builtin's default
ClassName(target_type) == IF target_type.t = "gen" THEN target_type.origin ELSE target_type.name

DefaultConstruct(target_type) ==
  CASE ClassName(target_type) = "int" -> VInt(0)
    [] ClassName(target_type) = "Age" -> VSubInt("Age", 0)
    [] ClassName(target_type) = "str" -> VStr(<<>>)
    [] ClassName(target_type) = "NoneType" -> NoneV
    [] ClassName(target_type) = "dict" -> VDict(<<>>)
    [] ClassName(target_type) = "list" -> VList(<<>>)
    [] ClassName(target_type) = "tuple" -> VTuple(<<>>)
    [] ClassName(target_type) = "Guarded" -> BuilderError("TypeError", target_type)
    [] OTHER -> VObj(ClassName(target_type), <<>>)

is_dataclass(target_type) == target_type.t = "cls" /\ target_type.name \in {"UnionRec", "TupleRec", "Checked"}

\* cls(**attributes)
_init_kwargs(cls, attributes) ==
  IF cls.name = "Checked" THEN BuilderError("ValueError", cls)
  ELSE VObj(cls.name, attributes)

\* obj = cls(); setattr(obj, key, value) for every attribute
_init_and_setattr(cls, attributes) ==
  IF IsRaise(DefaultConstruct(cls)) THEN DefaultConstruct(cls)
  ELSE IF attributes = <<>> THEN DefaultConstruct(cls)
  ELSE [DefaultConstruct(cls) EXCEPT !.attrs = attributes]

(***************************************************************************)
(* The parser (parse.py).  Every operator takes the log of converter       *)
(* invocations made so far and returns R(result, log'); a result of kind   *)
(* "raise" is an exception on its way to the caller.  Where the code binds *)
(* the result of a call to a local name and goes on, the model hands the   *)
(* result r of the call to an operator that holds the rest of the body.    *)
(***************************************************************************)
RECURSIVE parse(_, _, _, _, _)
RECURSIVE _parse(_, _, _, _, _, _)
RECURSIVE _parse_value(_, _, _, _, _)
RECURSIVE _parse_key_value(_, _, _, _, _, _)
RECURSIVE _parse_attributes(_, _, _, _, _)
RECURSIVE Resolve(_, _, _, _)

\* value[key] whatever optional is: an omitted nullable field would raise;
\* C3 tells it apart
LookupFieldStrict(value, key, optional) ==
  IF HasKey(value, KeyOf(key)) THEN GetItem(value, KeyOf(key))
  ELSE Raise("KeyError", key, NoShape)

\* value.get(key) whatever optional is: an omitted non-nullable field would
\* be looked at as null; C4 tells it apart
LookupFieldLenient(value, key, optional) ==
  IF HasKey(value, KeyOf(key)) THEN GetItem(value, KeyOf(key))
  ELSE NoneV

\* value.get(key) if optional else value[key]
LookupField(value, key, optional) ==
  IF HasKey(value, KeyOf(key)) THEN GetItem(value, KeyOf(key))
  ELSE IF optional THEN NoneV
  ELSE Raise("KeyError", key, NoShape)

\* the except clauses of _parse_key_value
WrapError(r, key, t_key) ==
  IF IsRaise(r.res) /\ r.res.err = "TypeError" THEN R(Raise("TypeError", key, t_key), r.log)
  ELSE IF IsRaise(r.res) /\ r.res.err = "KeyError" THEN R(Raise("KeyError", key, NoShape), r.log)
  ELSE r

\* the try block of _parse_key_value once the raw value is looked up
ParseFound(found, u, converters, unpackers, log) ==
  IF IsRaise(found) THEN R(found, log)
  ELSE _parse(found, u.types, u.optional, converters, unpackers, log)

_parse_key_value(value, key, t_key, converters, unpackers, log) ==
  WrapError(ParseFound(LookupField(value, key, _unpack_union(t_key).optional), _unpack_union(t_key), converters, unpackers, log), key, t_key)

\* {k: _parse_key_value(value, k, t, ...) for k, t in annotations.items()}:
\* the fields in declaration order; r is the result of field i
RECURSIVE AttributesFrom(_, _, _, _, _, _, _)
\* a loop that swallows the failure of every field but the last one and
\* goes on with the later fields; C11 tells it apart
AttributesNextKeepGoing(r, value, annotations, i, acc, converters, unpackers) ==
  IF IsRaise(r.res) /\ i = Len(annotations) THEN r
  ELSE AttributesFrom(value, annotations, i + 1, Append(acc, <<annotations[i][1], IF IsRaise(r.res) THEN NoneV ELSE r.res>>), converters, unpackers, r.log)

AttributesNext(r, value, annotations, i, acc, converters, unpackers) ==
  IF IsRaise(r.res) THEN r
  ELSE AttributesFrom(value, annotations, i + 1, Append(acc, <<annotations[i][1], r.res>>), converters, unpackers, r.log)

AttributesFrom(value, annotations, i, acc, converters, unpackers, log) ==
  IF i > Len(annotations) THEN R([k |-> "attributes", attrs |-> acc], log)
  ELSE AttributesNext(_parse_key_value(value, annotations[i][1], annotations[i][2], converters, unpackers, log), value, annotations, i, acc, converters, unpackers)

_parse_attributes(value, annotations, converters, unpackers, log) == AttributesFrom(value, annotations, 1, <<>>, converters, unpackers, log)

\* _parse_value: for target_type in target_union_args; r is what
\* _try_converters returned for candidate i
RECURSIVE ParseValueFrom(_, _, _, _, _, _)
ParseValueNext(r, value, target_union_args, i, converters, unpackers) ==
  IF r.res.k = "resolve" THEN Resolve(r.res, converters, unpackers, r.log)
  ELSE IF r.res # NoMatch THEN r
  ELSE ParseValueFrom(value, target_union_args, i + 1, converters, unpackers, r.log)

ParseValueFrom(value, target_union_args, i, converters, unpackers, log) ==
  IF i > Len(target_union_args) THEN R(NoneV, log)
  ELSE ParseValueNext(_try_converters(value, target_union_args[i], converters, log), value, target_union_args, i, converters, unpackers)

_parse_value(value, target_union_args, converters, unpackers, log) == ParseValueFrom(value, target_union_args, 1, converters, unpackers, log)

\* _parse after parsed = _parse_value(...): r holds parsed
CheckParsed(r, target_union_args, optional, unpackers) ==
  IF IsRaise(r.res) THEN r
  ELSE IF optional /\ r.res = NoneV THEN r
  ELSE IF AnyValid(r.res, target_union_args, 1, unpackers) = "true" THEN r
  ELSE R(BareTypeError, r.log)

_parse(value, target_union_args, optional, converters, unpackers, log) ==
  CheckParsed(_parse_value(value, target_union_args, converters, unpackers, log), target_union_args, optional, unpackers)

\* the end of the closure parse: the object is built from the attributes r
\* a builder that is handed the failure of a field and builds an instance
\* without attributes in its place; C23 tells it apart
BuildPartial(r, target_type) ==
  IF IsRaise(r.res) THEN R(VObj(ClassName(target_type), <<>>), r.log)
  ELSE IF is_dataclass(target_type) THEN R(_init_kwargs(target_type, r.res.attrs), r.log)
  ELSE R(_init_and_setattr(target_type, r.res.attrs), r.log)

Build(r, target_type) ==
  IF IsRaise(r.res) THEN r
  ELSE IF is_dataclass(target_type) THEN R(_init_kwargs(target_type, r.res.attrs), r.log)
  ELSE R(_init_and_setattr(target_type, r.res.attrs), r.log)

\* the closure parse(value) of _get_parser(converters, unpackers)(target_type)
parse(target_type, value, converters, unpackers, log) ==
  IF value.k # "dict" THEN _parse(value, _unpack_union(target_type).types, _unpack_union(target_type).optional, converters, unpackers, log)
  ELSE IF OriginIs(target_type, "dict") = "raise" THEN R(BareTypeError, log)
  ELSE IF OriginIs(target_type, "dict") = "yes" THEN _parse(value, <<target_type>>, _unpack_union(target_type).optional, converters, unpackers, log)
  ELSE IF AnnotationsRaise(target_type) THEN R(BareTypeError, log)
  ELSE Build(_parse_attributes(value, get_annotations(target_type), converters, unpackers, log), target_type)

\* the generator expressions of the list and tuple continuations:
\* parser(targets[i])(values[i]) for i = 1, 2, ...; r is the result of element i;
\* zip(source, args) ends with the shorter of the two
RECURSIVE ParseEach(_, _, _, _, _, _, _)
\* a generator that leaves out the elements resolving to null; the
\* element-wise law C26 tells it apart
ParseEachNextSkipNull(r, targets, values, i, acc, converters, unpackers) ==
  IF IsRaise(r.res) THEN r
  ELSE ParseEach(targets, values, i + 1, IF r.res = NoneV THEN acc ELSE Append(acc, r.res), converters, unpackers, r.log)

ParseEachNext(r, targets, values, i, acc, converters, unpackers) ==
  IF IsRaise(r.res) THEN r
  ELSE ParseEach(targets, values, i + 1, Append(acc, r.res), converters, unpackers, r.log)

ParseEach(targets, values, i, acc, converters, unpackers, log) ==
  IF i > Len(values) \/ i > Len(targets) THEN R(VList(acc), log)
  ELSE ParseEachNext(parse(targets[i], values[i], converters, unpackers, log), targets, values, i, acc, converters, unpackers)

\* {parse_key(k): parse_value(v) for k, v in source.items()}: the key of
\* entry i is parsed first (rk), then its value (rv); a parsed key that is
\* not hashable raises TypeError when the item is stored
RECURSIVE ParseItems(_, _, _, _, _, _, _, _)
ParseItemStore(rk, rv, t_key, t_value, entries, i, acc, converters, unpackers) ==
  IF IsRaise(rv.res) THEN rv
  ELSE IF ~IsHashable(rk.res) THEN R(BareTypeError, rv.log)
  ELSE ParseItems(t_key, t_value, entries, i + 1, SetItem(acc, rk.res, rv.res), converters, unpackers, rv.log)

ParseItemValue(rk, t_key, t_value, entries, i, acc, converters, unpackers) ==
  IF IsRaise(rk.res) THEN rk
  ELSE ParseItemStore(rk, parse(t_value, entries[i][2], converters, unpackers, rk.log), t_key, t_value, entries, i, acc, converters, unpackers)

ParseItems(t_key, t_value, entries, i, acc, converters, unpackers, log) ==
  IF i > Len(entries) THEN R(VDict(acc), log)
  ELSE ParseItemValue(parse(t_key, entries[i][1], converters, unpackers, log), t_key, t_value, entries, i, acc, converters, unpackers)

\* tuple(...) of the parsed elements
AsTuple(r) == IF IsRaise(r.res) THEN r ELSE R(VTuple(r.res.items), r.log)

\* resolve(parser) with parser = _get_parser(converters, unpackers)
Resolve(resolve, converters, unpackers, log) ==
  CASE resolve.by = "nested" -> parse(resolve.target, resolve.source, converters, unpackers, log)
    [] resolve.by = "dict" ->
         ParseItems(get_args(resolve.target)[1], get_args(resolve.target)[2], resolve.source.entries, 1, <<>>, converters, unpackers, log)
    [] resolve.by = "list" ->
         ParseEach([i \in 1..Len(Iterate(resolve.source)) |-> get_args(resolve.target)[1]], Iterate(resolve.source), 1, <<>>, converters, unpackers, log)
    [] resolve.by = "tuple" ->
         AsTuple(ParseEach(TupleArgs(resolve.target, Len(Iterate(resolve.source))), Iterate(resolve.source), 1, <<>>, converters, unpackers, log))
    [] OTHER -> R(resolve.source, log)

\* a parse_required that hands the result on as it is, null included; C30
\* tells it apart
ReturnAsIs(r) == r

\* "if result is None: raise TypeError()" of parse_required
RequireNotNone(r) == IF ~IsRaise(r.res) /\ r.res = NoneV THEN R(BareTypeError, r.log) ELSE r

\* parse_required(value) of get_parser_with_no_defaults(...)(target_type)
parse_required(target_type, value, converters, unpackers) ==
  RequireNotNone(parse(target_type, value, converters, CORE_UNPACKERS \o unpackers, <<>>))

(***************************************************************************)
(* The earlier engine (src/parse.py).  A value parser answers match() with *)
(* a rating and the scalar value is parsed by the parser rated highest.    *)
(* A value parser is [name, match, factor]: MatchSubtype and MatchNone are *)
(* the defaults, AgeParser(match, factor) is the parser of the tests that  *)
(* rates every pair of types with match and parses to Age(value * factor). *)
(* The log of a result holds the calls of match().  Target types are       *)
(* classes, Optional[class] and generic aliases.                           *)
(***************************************************************************)
ValueParser(name, match, factor) == [name |-> name, match |-> match, factor |-> factor]
MatchSubtype == ValueParser("MatchSubtype", 0, 0)
MatchNone == ValueParser("MatchNone", 0, 0)
AgeParser(match, factor) == ValueParser("AgeParser", match, factor)
DEFAULT_VALUE_PARSERS == <<MatchSubtype, MatchNone>>

\* type(value)
TypeOf(v) == Cls(ClassOf(v))

\* issubclass(source_type, target_type) of MatchSubtype.match raises
\* TypeError when the target is a parameterized generic
MatchRaises(parser, source_type, target_type) == parser.name = "MatchSubtype" /\ target_type.t # "cls"

\* parser.match(source_type, target_type)
match(parser, source_type, target_type) ==
  CASE parser.name = "MatchSubtype" -> (IF IsSubclass(source_type.name, target_type.name) THEN 1 ELSE 0)
    [] parser.name = "MatchNone" -> (IF IsSubclass(source_type.name, "NoneType") THEN 1 ELSE 0)
    [] OTHER -> parser.match

\* parser.parse(value); Age(value * factor) raises ValueError for a str
\* that is no number and TypeError for None and for the containers
ParseBy(parser, v) ==
  CASE parser.name = "MatchSubtype" -> v
    [] parser.name = "MatchNone" -> NoneV
    [] OTHER -> (IF v.k = "int" THEN VSubInt("Age", v.n * parser.factor)
                 ELSE IF v.k = "str" THEN Raise("ValueError", "", NoShape)
                 ELSE BareTypeError)

MatchCall(i, parser, source_type, target_type) == [idx |-> i, parser |-> parser, source |-> source_type, target |-> target_type]
Rated(parser, rating) == [k |-> "rated", parser |-> parser, match |-> rating]

\* run(aggr, crnt) of _best_parser_for; crnt_match is crnt.match(...)
_best_parser_for(aggr, crnt, crnt_match) ==
  IF crnt_match > aggr.match THEN Rated(crnt, crnt_match) ELSE aggr

\* reduce(_best_parser_for(source_type, target_type), remaining, (fst, ...))
RECURSIVE BestFrom(_, _, _, _, _, _)
BestFrom(value_parsers_, source_type, target_type, i, aggr, log) ==
  IF i > Len(value_parsers_) THEN R(aggr, log)
  ELSE IF MatchRaises(value_parsers_[i], source_type, target_type)
       THEN R(BareTypeError, Append(log, MatchCall(i, value_parsers_[i], source_type, target_type)))
       ELSE BestFrom(value_parsers_, source_type, target_type, i + 1,
                     _best_parser_for(aggr, value_parsers_[i], match(value_parsers_[i], source_type, target_type)),
                     Append(log, MatchCall(i, value_parsers_[i], source_type, target_type)))

_get_best_value_parser(value_parsers_, source_type, target_type, log) ==
  IF MatchRaises(value_parsers_[1], source_type, target_type)
  THEN R(BareTypeError, Append(log, MatchCall(1, value_parsers_[1], source_type, target_type)))
  ELSE BestFrom(value_parsers_, source_type, target_type, 2,
                Rated(value_parsers_[1], match(value_parsers_[1], source_type, target_type)),
                Append(log, MatchCall(1, value_parsers_[1], source_type, target_type)))

\* get_origin(value) or value, as the name of a class
_origin(t) == IF get_origin(t) # "" THEN get_origin(t) ELSE IF t.t = "cls" THEN t.name ELSE ""

_is_iterable_candidate(t_key, v) == t_key # TStr /\ v.k # "str" /\ IsIterable(v)

_is_iterable(t_key, v, assert_types) == _is_iterable_candidate(t_key, v) /\ _origin(t_key) \in assert_types

\* _get_optional_or_orig: the one member of a typing.Union that is not
\* NoneType; the unpacking raises ValueError when there is not exactly one
NonNone(t) == SelectSeq(get_args(t), LAMBDA a : a # TNone)
OptionalRaises(t) == _origin(t) = "typing.Union" /\ Len(NonNone(t)) # 1
_get_optional_or_orig(t) ==
  IF _origin(t) = "typing.Union" THEN [type |-> NonNone(t)[1], optional |-> TRUE]
  ELSE [type |-> t, optional |-> FALSE]

\* the call of the best parser at the end of _parse_value
UseBest(best, v) ==
  IF IsRaise(best.res) THEN best
  ELSE IF best.res.match = 0 THEN R(BareTypeError, best.log)
  ELSE R(ParseBy(best.res.parser, v), best.log)

\* _parse of the earlier engine: partial(_parse, value_parsers, target_type)
RECURSIVE rated_parse(_, _, _, _)

\* [parse(e) for e in value] with parse = get_parser(*value_parsers)(t_key)
RECURSIVE RatedEach(_, _, _, _, _, _)
RatedEachNext(r, t_key, values, i, acc, value_parsers_) ==
  IF IsRaise(r.res) THEN r
  ELSE RatedEach(t_key, values, i + 1, Append(acc, r.res), value_parsers_, r.log)

RatedEach(t_key, values, i, acc, value_parsers_, log) ==
  IF i > Len(values) THEN R(VList(acc), log)
  ELSE RatedEachNext(rated_parse(value_parsers_, t_key, values[i], log), t_key, values, i, acc, value_parsers_)

\* _parse_value of the earlier engine
rated_parse_value(v, t_key, value_parsers_, log) ==
  IF _is_iterable(t_key, v, {"list"})
  THEN (IF Len(get_args(t_key)) # 1 THEN R(Raise("ValueError", "", NoShape), log)
        ELSE RatedEach(get_args(t_key)[1], Iterate(v), 1, <<>>, value_parsers_, log))
  ELSE IF _is_iterable(t_key, v, {"tuple", "Iterable"})
  THEN (IF Len(get_args(t_key)) = 0 THEN R(Raise("ValueError", "", NoShape), log)
        ELSE AsTuple(RatedEach(get_args(t_key)[1], Iterate(v), 1, <<>>, value_parsers_, log)))
  ELSE IF v.k = "dict" THEN rated_parse(value_parsers_, t_key, v, log)
  ELSE IF v.k \in {"list", "tuple"} /\ Len(v.items) = 1 THEN rated_parse(value_parsers_, t_key, v.items[1], log)
  ELSE IF value_parsers_ = <<>> THEN R(BareTypeError, log)
  ELSE UseBest(_get_best_value_parser(value_parsers_, TypeOf(v), t_key, log), v)

\* the end of _parse_flat: parsed is what _parse_value returned
CheckFlat(r, target_type, optional) ==
  IF IsRaise(r.res) THEN r
  ELSE IF optional /\ r.res = NoneV THEN r
  ELSE IF IsSubclass(ClassOf(r.res), _origin(target_type)) THEN r
  ELSE R(BareTypeError, r.log)

_parse_flat(target_type, value_parsers_, data, optional, log) ==
  CheckFlat(rated_parse_value(data, target_type, value_parsers_, log), target_type, optional)

\* the try block of _parse_key once the raw value is looked up
KeyFound(found, opt, value_parsers_, log) ==
  IF IsRaise(found) THEN R(found, log)
  ELSE _parse_flat(opt.type, value_parsers_, found, opt.optional, log)

_parse_key(data, key, t_key, value_parsers_, log) ==
  IF OptionalRaises(t_key) THEN R(Raise("ValueError", "", NoShape), log)
  ELSE WrapError(KeyFound(LookupField(data, key, _get_optional_or_orig(t_key).optional), _get_optional_or_orig(t_key), value_parsers_, log),
                 key, _get_optional_or_orig(t_key).type)

\* {key: _parse_key(data, key, t_key, sub_parsers) for key, t_key in ...}
RECURSIVE RatedAttributesFrom(_, _, _, _, _, _)
RatedAttributesNext(r, data, annotations, i, acc, sub_parsers) ==
  IF IsRaise(r.res) THEN r
  ELSE RatedAttributesFrom(data, annotations, i + 1, Append(acc, <<annotations[i][1], r.res>>), sub_parsers, r.log)

RatedAttributesFrom(data, annotations, i, acc, sub_parsers, log) ==
  IF i > Len(annotations) THEN R([k |-> "attributes", attrs |-> acc], log)
  ELSE RatedAttributesNext(_parse_key(data, annotations[i][1], annotations[i][2], sub_parsers, log), data, annotations, i, acc, sub_parsers)

_get_attributes(annotations, sub_parsers, data, log) == RatedAttributesFrom(data, annotations, 1, <<>>, sub_parsers, log)

rated_parse(value_parsers_, target_type, data, log) ==
  IF OptionalRaises(target_type) THEN R(Raise("ValueError", "", NoShape), log)
  ELSE IF data.k # "dict"
  THEN _parse_flat(_get_optional_or_orig(target_type).type, value_parsers_, data, _get_optional_or_orig(target_type).optional, log)
  ELSE IF AnnotationsRaise(_get_optional_or_orig(target_type).type) THEN R(BareTypeError, log)
  ELSE Build(_get_attributes(get_annotations(_get_optional_or_orig(target_type).type), value_parsers_, data, log),
             _get_optional_or_orig(target_type).type)

(***************************************************************************)
(* Inputs of the model.                                                    *)
(***************************************************************************)
Atoms == {VInt(n) : n \in 0..MaxInt} \cup {VStr(<<"x">>), VStr(<<"x", "y">>), NoneV}

\* raw mappings for the Address record: conforming, wrong type, key missing
InnerDicts == {VDict(<< <<KeyOf("a"), VStr(<<"x">>)>> >>), VDict(<< <<KeyOf("a"), VInt(0)>> >>), VDict(<<>>)}

\* elements of the raw sequences
Elems == {VInt(0), VStr(<<"x">>), NoneV, VDict(<< <<KeyOf("a"), VStr(<<"x">>)>> >>)}

\* instances of classes of the caller found in raw data
Instances == {BoxV}

SeqsUpTo(S, n) == UNION {[1..m -> S] : m \in 0..n}

RawLists == {VList(s) : s \in SeqsUpTo(Elems, MaxLen)}
RawTuples == {VTuple(s) : s \in SeqsUpTo({VInt(0), VStr(<<"x">>)}, MaxLen)}

\* what a raw mapping may hold under key "a" and under key "b"
FieldValsA == Atoms \cup InnerDicts
FieldValsB == Atoms \cup InnerDicts \cup RawLists \cup Instances

\* raw mappings with keys among "a", "b", in either insertion order
RawDicts ==
  {VDict(<<>>)}
  \cup {VDict(<< <<KeyOf("a"), x>> >>) : x \in FieldValsA}
  \cup {VDict(<< <<KeyOf("b"), y>> >>) : y \in FieldValsB}
  \cup {VDict(<< <<KeyOf("a"), x>>, <<KeyOf("b"), y>> >>) : x \in FieldValsA, y \in FieldValsB}

RawValues == Atoms \cup RawLists \cup RawTuples \cup RawDicts \cup Instances

\* target types handed to the parser factory
RootShapes == {TInt, TStr, TDict, TList,
               Optional(TInt), PipeUnion(<<TInt, TStr>>),
               ListOf(TInt), ListOf(Optional(TStr)), ListOf(Optional(TAddress)), ListOf(OrNone(TAddress)),
               TupleOf(<<TInt>>), TupleOf(<<TInt, TStr>>), VarTupleOf(TInt), VarTupleOf(Optional(TStr)),
               DictOf(TStr, TInt), TBox}
TargetTypes == RootShapes \cup {Cls(c) : c \in RecordClasses}

\* caller-supplied converter tuples
CustomConverter(name, out) == [name |-> name, out |-> out]
CustomChains == {<<>>,
                 <<CustomConverter("ident", NoneV)>>,
                 <<CustomConverter("const", VInt(1))>>,
                 <<CustomConverter("age", NoneV)>>,
                 <<CustomConverter("age", NoneV), CustomConverter("raise", NoneV)>>,
                 <<CustomConverter("lazy", VTuple(<<VInt(0)>>))>>,
                 <<CustomConverter("box", NoneV)>>}

\* caller-supplied unpacker tuples
CustomUnpackers == {<<>>, <<"unpack_box">>, <<"unpack_any">>}

\* value parsers handed to the factories of the earlier engine
RatedChains == {<<>>,
                <<AgeParser(1, 2)>>, <<AgeParser(2, 2)>>, <<AgeParser(0, 2)>>,
                <<AgeParser(1, 2), AgeParser(2, 3)>>, <<AgeParser(2, 3), AgeParser(1, 2)>>,
                <<AgeParser(1, 2), AgeParser(1, 3)>>, <<AgeParser(2, 2), AgeParser(2, 3)>>}

\* target types handed to the parser factory of the earlier engine
RatedTargets == {TInt, TStr, TAge, Optional(TInt), ListOf(TInt), TupleOf(<<TInt, TStr>>), TPerson, TTupleRec}

\* raw values for the self-referential classes: what key "n" may hold down
\* to a nesting depth of d, mappings with and without "a" and "n" and lists
\* of one such mapping
RECURSIVE Links(_)
Links(d) ==
  IF d = 0 THEN {NoneV, VInt(0), VList(<<>>)}
  ELSE Links(d - 1)
       \cup {VDict(<< <<KeyOf("a"), x>>, <<KeyOf("n"), l>> >>) : x \in {VStr(<<"x">>), VInt(0)}, l \in Links(d - 1)}
       \cup {VDict(<< <<KeyOf("n"), l>> >>) : l \in Links(d - 1)}
       \cup {VDict(<< <<KeyOf("a"), VStr(<<"x">>)>> >>), VDict(<<>>)}
       \cup {VList(<<l>>) : l \in {m \in Links(d - 1) : m.k = "dict"}}
LinkedValues == {v \in Links(MaxDepth) : v.k = "dict"}
LinkedTargets == {TNode, TChain, TTree}

\* the keyword arguments (converters, unpackers) of a factory call: every
\* converter tuple without unpackers, and the converter tuples that can
\* produce a value for a generic target with each unpacker tuple
Configurations ==
  {<<c, <<>>>> : c \in CustomChains}
  \cup {<<c, u>> : c \in {<<>>, <<CustomConverter("ident", NoneV)>>, <<CustomConverter("const", VInt(1))>>, <<CustomConverter("box", NoneV)>>},
                  u \in CustomUnpackers \ {<<>>}}

(***************************************************************************)
(* State machine: a caller builds a factory, asks it for the parser of a   *)
(* target type and applies the parser to a raw value.                      *)
(***************************************************************************)
VARIABLES pc, converters, unpackers, value_parsers, target_type, value, result

vars == <<pc, converters, unpackers, value_parsers, target_type, value, result>>

Init ==
  /\ pc = "start"
  /\ converters = <<>>
  /\ unpackers = <<>>
  /\ value_parsers = <<>>
  /\ target_type = NoShape
  /\ value = NoneV
  /\ result = R(NoneV, <<>>)

\* get_parser(converters=custom)
GetParser ==
  /\ pc = "start"
  /\ \E cfg \in Configurations :
       /\ converters' = cfg[1] \o DEFAULT_CONVERTERS
       /\ unpackers' = cfg[2]
  /\ pc' = "factory"
  /\ UNCHANGED <<value_parsers, target_type, value, result>>

\* get_parser_with_no_defaults(converters=custom)
GetParserWithNoDefaults ==
  /\ pc = "start"
  /\ \E cfg \in Configurations :
       /\ converters' = cfg[1]
       /\ unpackers' = cfg[2]
  /\ pc' = "nodefaults"
  /\ UNCHANGED <<value_parsers, target_type, value, result>>

\* partial_parse(target_type): the factory returns parse_required
PartialParse ==
  /\ pc \in {"factory", "nodefaults"}
  /\ \E t \in (IF pc = "factory" THEN TargetTypes ELSE {TInt, TPerson, TMock}) : target_type' = t
  /\ pc' = "parser"
  /\ UNCHANGED <<converters, unpackers, value_parsers, value, result>>

\* parse_required(value)
ParseRequired ==
  /\ pc = "parser"
  /\ \E v \in RawValues :
       /\ value' = v
       /\ result' = parse_required(target_type, v, converters, unpackers)
  /\ pc' = "done"
  /\ UNCHANGED <<converters, unpackers, value_parsers, target_type>>

Next == GetParser \/ GetParserWithNoDefaults \/ PartialParse \/ ParseRequired

Spec == Init /\ [][Next]_vars

(***************************************************************************)
(* State machine of the earlier engine (src/parse.py): the caller hands    *)
(* value parsers to get_parser or get_parser_default, asks for the parser  *)
(* of a target type and applies it to a raw value.                         *)
(***************************************************************************)
\* get_parser(*value_parsers)
GetParserRated ==
  /\ pc = "start"
  /\ \E c \in RatedChains : value_parsers' = c
  /\ pc' = "rated"
  /\ UNCHANGED <<converters, unpackers, target_type, value, result>>

\* get_parser_default(*value_parsers)
GetParserDefault ==
  /\ pc = "start"
  /\ \E c \in RatedChains : value_parsers' = c \o DEFAULT_VALUE_PARSERS
  /\ pc' = "rated"
  /\ UNCHANGED <<converters, unpackers, target_type, value, result>>

\* partial_parse(target_type): partial(_parse, value_parsers, target_type)
PartialParseRated ==
  /\ pc = "rated"
  /\ \E t \in RatedTargets : target_type' = t
  /\ pc' = "rated_parser"
  /\ UNCHANGED <<converters, unpackers, value_parsers, value, result>>

\* the call of the parser: _parse(value_parsers, target_type, data)
ParseRated ==
  /\ pc = "rated_parser"
  /\ \E v \in RawValues :
       /\ value' = v
       /\ result' = rated_parse(value_parsers, target_type, v, <<>>)
  /\ pc' = "rated_done"
  /\ UNCHANGED <<converters, unpackers, value_parsers, target_type>>

NextRated == GetParserRated \/ GetParserDefault \/ PartialParseRated \/ ParseRated

SpecRated == Init /\ [][NextRated]_vars

(***************************************************************************)
(* State machine for record classes that refer to themselves: the caller   *)
(* asks a factory of get_parser for the parser of such a class and applies *)
(* it to a raw mapping.                                                    *)
(***************************************************************************)
\* partial_parse(target_type) for a self-referential class
PartialParseLinked ==
  /\ pc = "factory"
  /\ \E t \in LinkedTargets : target_type' = t
  /\ pc' = "parser"
  /\ UNCHANGED <<converters, unpackers, value_parsers, value, result>>

\* parse_required(value) for a raw mapping
ParseRequiredLinked ==
  /\ pc = "parser"
  /\ \E v \in LinkedValues :
       /\ value' = v
       /\ result' = parse_required(target_type, v, converters, unpackers)
  /\ pc' = "done"
  /\ UNCHANGED <<converters, unpackers, value_parsers, target_type>>

NextLinked == GetParser \/ PartialParseLinked \/ ParseRequiredLinked

SpecLinked == Init /\ [][NextLinked]_vars

(***************************************************************************)
(* Vocabulary of the properties.  A property looks at the state in which   *)
(* the parser has returned or raised (pc = "done").                        *)
(***************************************************************************)
Done == pc = "done"
Ok == ~IsRaise(result.res)
\* the parser is one of get_parser(): the default converters only
DefaultParser == converters = DEFAULT_CONVERTERS
AllUnpackers == CORE_UNPACKERS \o unpackers

\* the failure is one the class raised while its instance was built
IsConstructionFailure(r) == IsRaise(r) /\ r.key = "__init__"

IsRecord(t) == t.t = "cls" /\ t.name \in RecordClasses
\* a record shape is applied to a raw mapping
RecordParse == Done /\ IsRecord(target_type) /\ value.k = "dict"
Fields == Annotations(target_type.name)
FieldName(i) == Fields[i][1]
FieldType(i) == Fields[i][2]
Nullable(t) == _unpack_union(t).optional
Candidates(t) == _unpack_union(t).types
NullableFields == {i \in 1..Len(Fields) : Nullable(FieldType(i))}
RequiredFields == {i \in 1..Len(Fields) : ~Nullable(FieldType(i))}
Present(d, i) == HasKey(d, KeyOf(FieldName(i)))
Raw(d, i) == GetItem(d, KeyOf(FieldName(i)))
Attr(obj, name) == obj.attrs[CHOOSE j \in 1..Len(obj.attrs) : obj.attrs[j][1] = name][2]

\* what field i of the record resolves to when the raw mapping is d
FieldOutcome(d, i) == _parse_key_value(d, FieldName(i), FieldType(i), converters, AllUnpackers, <<>>)
\* every field declared before field i resolves
EarlierResolve(d, i) == \A j \in 1..(i - 1) : ~IsRaise(FieldOutcome(d, j).res)

\* v conforms to the declared shape t: null for a nullable shape, or
\* accepted by the validation for one candidate of t
Conforms(v, t) ==
  \/ v = NoneV /\ Nullable(t)
  \/ AnyValid(v, Candidates(t), 1, CORE_UNPACKERS) = "true"

(***************************************************************************)
(* C1  Output soundness.                                                   *)
(***************************************************************************)
\* C1: whenever the parser returns a value for a root shape, the value
\* conforms to the shape, and every field of a returned record conforms to
\* the field's declared shape; this for every converter chain.
C1_OutputSoundness ==
  Done /\ Ok =>
    /\ Conforms(result.res, target_type)
    /\ RecordParse => \A i \in 1..Len(Fields) : Conforms(Attr(result.res, FieldName(i)), FieldType(i))

(***************************************************************************)
(* C2  Identity on conforming scalars.                                     *)
(***************************************************************************)
ScalarShapes == {TInt, TStr, TDict, TList}

\* C2: get_parser()(S)(v) returns v for every scalar shape S (the plain
\* mapping and the plain sequence type included) and every v that is an
\* instance of S.
C2_IdentityOnScalars ==
  Done /\ DefaultParser /\ target_type \in ScalarShapes /\ IsInstance(value, target_type) = "true"
    => result.res = value

(***************************************************************************)
(* C3  A nullable field omitted, and the same field explicitly null.       *)
(***************************************************************************)
\* the raw mapping with field i present and null
WithNull(d, i) == VDict(SetItem(d.entries, KeyOf(FieldName(i)), NoneV))

KeyMissing(i) == Raise("KeyError", FieldName(i), NoShape)

\* C4 (as stated): for every record and every raw mapping in which a
\* non-nullable field f is absent, the parse fails with KeyError naming f,
\* whatever the other fields and entries are.
C4_MissingAlwaysNamed ==
  RecordParse =>
    \A i \in RequiredFields : ~Present(value, i) => result.res = KeyMissing(i)

\* C4 (amended): with a non-nullable field f absent the parse always fails;
\* the failure is KeyError naming f when every field declared before f
\* resolves, and otherwise it is the failure of the first field, in
\* declaration order, that does not resolve.
C4_MissingFails ==
  RecordParse =>
    \A i \in RequiredFields :
      ~Present(value, i) =>
        /\ IsRaise(result.res)
        /\ EarlierResolve(value, i) => result.res = KeyMissing(i)
        /\ \A j \in 1..(i - 1) :
             EarlierResolve(value, j) /\ IsRaise(FieldOutcome(value, j).res)
               => result.res = FieldOutcome(value, j).res

\* the second field of a record is absent, the first one is present and
\* resolves, and the parse fails with KeyError naming the second field
C4_Witness ==
  /\ RecordParse
  /\ 2 \in RequiredFields /\ ~Present(value, 2)
  /\ Present(value, 1) /\ EarlierResolve(value, 2)
  /\ result.res = KeyMissing(2)

(***************************************************************************)
(* C5  A present, non-null raw value that matches no candidate.            *)
(***************************************************************************)
\* no converter of the chain matches v for any candidate of shape t
MatchesNone(v, t) ==
  \A c \in 1..Len(Candidates(t)) : _try_converters(v, Candidates(t)[c], converters, <<>>).res = NoMatch

\* C5: a record field whose raw value is present, non-null and matched by
\* no converter for any candidate of the field fails the parse with
\* TypeError at that field, also when the field is nullable (the field is
\* not resolved to null).
C5_NoMatchIsTypeError ==
  RecordParse =>
    \A i \in 1..Len(Fields) :
      (Present(value, i) /\ Raw(value, i) # NoneV /\ MatchesNone(Raw(value, i), FieldType(i)) /\ EarlierResolve(value, i))
        => result.res = Raise("TypeError", FieldName(i), FieldType(i))

(***************************************************************************)
(* C6  Null short-circuit.                                                 *)
(***************************************************************************)
\* the raw value of field i is null, explicitly or by omission
RawIsNull(d, i) == ~Present(d, i) \/ Raw(d, i) = NoneV

\* C6: a nullable field whose raw value is null (explicit or omitted)
\* resolves to null and no converter is invoked for it, whatever the
\* converter chain; no converter turns the null into a value or raises.
C6_NullShortCircuit ==
  RecordParse =>
    \A i \in NullableFields :
      RawIsNull(value, i) => FieldOutcome(value, i) = R(NoneV, <<>>)

(***************************************************************************)
(* C7  Tuple arity law.                                                    *)
(***************************************************************************)
IsSequence(v) == v.k \in {"list", "tuple", "str"}
IsTupleShape(t) == t.t = "gen" /\ t.origin = "tuple"
FixedTuple(t) == IsTupleShape(t) /\ ~IsVariadic(t.args)
VariadicTuple(t) == IsTupleShape(t) /\ IsVariadic(t.args)
\* what the parser of shape t gives for the element e
ElementOutcome(t, e) == parse(t, e, converters, AllUnpackers, <<>>)

C7_WitnessVariadic ==
  /\ Done /\ DefaultParser /\ value.k = "list" /\ VariadicTuple(target_type) /\ Ok
  /\ Len(value.items) = MaxLen /\ Len(result.res.items) = MaxLen

C7_WitnessEmpty ==
  /\ Done /\ DefaultParser /\ value = VList(<<>>) /\ VariadicTuple(target_type)
  /\ result.res = VTuple(<<>>)

(***************************************************************************)
(* C8  Converter chain order.                                              *)
(***************************************************************************)
DefaultNames == <<"convert_tuple", "convert_list", "convert_dict", "convert_nested", "convert_value">>
\* the chain of the factory: the converters of the caller, then the defaults
ChainOrdered ==
  \/ Len(converters) < Len(DefaultNames)
  \/ /\ \A j \in 1..Len(DefaultNames) : converters[Len(converters) - Len(DefaultNames) + j].name = DefaultNames[j]
     /\ SubSeq(converters, 1, Len(converters) - Len(DefaultNames)) \in CustomChains

\* entry i of the log continues or starts the walk over the chain for one
\* (raw value, candidate shape) pair
EntryInOrder(log, i) ==
  /\ log[i].conv = converters[log[i].idx]
  /\ log[i].idx > 1 =>
       /\ i > 1
       /\ log[i - 1].idx = log[i].idx - 1
       /\ log[i - 1].out = "nomatch"
       /\ log[i - 1].value = log[i].value /\ log[i - 1].target = log[i].target
  /\ (log[i].idx = 1 /\ i > 1) =>
       log[i - 1].out = "match" \/ log[i - 1].idx = Len(converters)
  /\ (log[i].out = "nomatch" /\ log[i].idx < Len(converters)) =>
       i < Len(log) /\ log[i + 1].idx = log[i].idx + 1
  /\ log[i].out = "raise" => i = Len(log)

\* index of the first converter of the chain whose result for (v, t) is not
\* NoMatch; 0 when there is none
FirstMatch(v, t) ==
  IF \A i \in 1..Len(converters) : ApplyConverter(converters[i], v, t) = NoMatch THEN 0
  ELSE CHOOSE i \in 1..Len(converters) :
         /\ ApplyConverter(converters[i], v, t) # NoMatch
         /\ \A j \in 1..(i - 1) : ApplyConverter(converters[j], v, t) = NoMatch
FirstResult(v, t) == ApplyConverter(converters[FirstMatch(v, t)], v, t)

\* C8: for each (raw value, candidate shape) pair the converters are
\* invoked in chain order (those of the caller first, then convert_tuple,
\* convert_list, convert_dict, convert_nested, convert_value), each with
\* that same pair, and the walk stops at the first result that is not
\* NoMatch; for a root scalar shape that result, and no later one, is what
\* the parser returns (or refuses when the validation rejects it).
C8_ChainOrder ==
  Done =>
    /\ ChainOrdered
    /\ \A i \in 1..Len(result.log) : EntryInOrder(result.log, i)
    /\ (value.k # "dict" /\ Len(converters) > 0) =>
         /\ Len(result.log) > 0
         /\ result.log[1].idx = 1
         /\ result.log[1].value = value /\ result.log[1].target = Candidates(target_type)[1]
    /\ (value.k # "dict" /\ target_type.t = "cls" /\ Len(converters) > 0) =>
         /\ Len(result.log) = (IF FirstMatch(value, target_type) = 0 THEN Len(converters) ELSE FirstMatch(value, target_type))
         /\ FirstMatch(value, target_type) = 0 => IsRaise(result.res)
         /\ FirstMatch(value, target_type) > 0 =>
              \/ result.res = FirstResult(value, target_type)
              \/ result.res = BareTypeError
              \/ /\ FirstResult(value, target_type).k = "resolve"
                 /\ result.res = FirstResult(value, target_type).source

\* a caller-supplied converter answered NoMatch, the defaults were walked
\* in order and convert_value, the last one, gave the result
C8_Witness ==
  /\ Done /\ Ok /\ Len(converters) = 6 /\ target_type = TInt /\ value.k = "int"
  /\ Len(result.log) = 6
  /\ result.log[1].out = "nomatch" /\ result.log[1].conv = converters[1]
  /\ result.log[6].out = "match" /\ result.log[6].conv.name = "convert_value"

\* the first converter of the caller matched and no default was invoked
C8_WitnessFirst ==
  /\ Done /\ Len(converters) = 6 /\ target_type = TInt /\ value = VStr(<<"x">>)
  /\ Len(result.log) = 1 /\ result.log[1].out = "match" /\ result.log[1].conv.name = "const"
  /\ result.res = VInt(1)

(***************************************************************************)
(* C9  Alternatives of a union field.                                      *)
(***************************************************************************)
\* candidate c of shape t taken alone: matching, lazy resolution, validation
AltOutcome(v, t, c) == _parse(v, <<Candidates(t)[c]>>, FALSE, converters, AllUnpackers, <<>>)
AltSucceeds(v, t, c) == ~IsRaise(AltOutcome(v, t, c).res)
SomeAltSucceeds(v, t) == \E c \in 1..Len(Candidates(t)) : AltSucceeds(v, t, c)
FirstAlt(v, t) ==
  CHOOSE c \in 1..Len(Candidates(t)) :
    AltSucceeds(v, t, c) /\ \A b \in 1..(c - 1) : ~AltSucceeds(v, t, b)

\* C9: for a record field whose shape is a union and whose raw value is
\* present and non-null, an alternative that fails (no converter matches,
\* its continuation fails on an element, or the validation rejects it) is
\* passed over; when some alternative succeeds the field resolves to the
\* result of the first one that does.
C9_FirstSucceedingAlternative ==
  RecordParse /\ DefaultParser =>
    \A i \in 1..Len(Fields) :
      (/\ FieldType(i).t = "union" /\ Present(value, i) /\ Raw(value, i) # NoneV
       /\ SomeAltSucceeds(Raw(value, i), FieldType(i)))
        => /\ FieldOutcome(value, i).res = AltOutcome(Raw(value, i), FieldType(i), FirstAlt(Raw(value, i), FieldType(i))).res
           /\ EarlierResolve(value, i) /\ Ok =>
                Attr(result.res, FieldName(i)) = AltOutcome(Raw(value, i), FieldType(i), FirstAlt(Raw(value, i), FieldType(i))).res

(***************************************************************************)
(* C10  Optional record shapes inside the recursion.                       *)
(***************************************************************************)
ConformingAddress == VDict(<< <<KeyOf("a"), VStr(<<"x">>)>> >>)
\* what a record field "a" of shape t resolves to for the raw value e
AsField(t, e) == _parse_key_value(VDict(<< <<KeyOf("a"), e>> >>), "a", t, converters, AllUnpackers, <<>>)

\* C10: list[Optional[Address]] (either spelling of the union) applied to
\* a list of conforming mappings and nulls gives the list of what an
\* Optional[Address] record field gives for each element: the record built
\* from the mapping, and null.
C10_OptionalRecordElements ==
  (/\ Done /\ DefaultParser
   /\ target_type \in {ListOf(Optional(TAddress)), ListOf(OrNone(TAddress))}
   /\ value.k = "list"
   /\ \A j \in 1..Len(value.items) : value.items[j] \in {NoneV, ConformingAddress})
    => result.res = VList([j \in 1..Len(value.items) |-> AsField(target_type.args[1], value.items[j]).res])

(***************************************************************************)
(* C11  Fields are resolved in declaration order; the first failure ends   *)
(* the record.                                                             *)
(***************************************************************************)
FailingFields(d) == {i \in 1..Len(Fields) : IsRaise(FieldOutcome(d, i).res)}
FirstFailing(d) == CHOOSE i \in FailingFields(d) : \A j \in FailingFields(d) : i <= j

\* the converter invocations made for the fields 1..n, field after field
RECURSIVE LogOfFields(_, _)
LogOfFields(d, n) == IF n = 0 THEN <<>> ELSE LogOfFields(d, n - 1) \o FieldOutcome(d, n).log

NestedRecord(t) == Len(Candidates(t)) = 1 /\ IsRecord(Candidates(t)[1])
InnerFields(t) == Annotations(Candidates(t)[1].name)
\* what field g of the nested record resolves to when its raw mapping is m
InnerOutcome(t, m, g) == _parse_key_value(m, InnerFields(t)[g][1], InnerFields(t)[g][2], converters, AllUnpackers, <<>>)

\* C12: when field f of the root record holds a nested record and a
\* non-nullable field g of the nested record is absent from the nested
\* mapping (every field before f, and every nested field before g,
\* resolving), the root caller gets a KeyError that names g as the absent
\* key.
C12_NestedKeyMissing ==
  RecordParse =>
    \A i \in 1..Len(Fields) :
      (/\ NestedRecord(FieldType(i)) /\ Present(value, i) /\ Raw(value, i).k = "dict"
       /\ EarlierResolve(value, i))
        => \A g \in 1..Len(InnerFields(FieldType(i))) :
             (/\ ~Nullable(InnerFields(FieldType(i))[g][2])
              /\ ~HasKey(Raw(value, i), KeyOf(InnerFields(FieldType(i))[g][1]))
              /\ \A h \in 1..(g - 1) : ~IsRaise(InnerOutcome(FieldType(i), Raw(value, i), h).res))
               => result.res = Raise("KeyError", InnerFields(FieldType(i))[g][1], NoShape)

(***************************************************************************)
(* C13  dict[K, V] applied to a raw mapping.                               *)
(***************************************************************************)
IsMapShape(t) == t.t = "gen" /\ t.origin = "dict"
\* every key of the raw mapping d is an instance of K, every value of V
EntriesConform(d, t) ==
  \A e \in 1..Len(d.entries) :
    IsInstance(d.entries[e][1], t.args[1]) = "true" /\ IsInstance(d.entries[e][2], t.args[2]) = "true"

\* C13: under the default converters dict[K, V] applied to a raw mapping
\* returns a mapping equal to the input when every key conforms to K and
\* every value to V, and fails with TypeError when some key or some value
\* does not conform.
C13_MapEntries ==
  (Done /\ DefaultParser /\ IsMapShape(target_type) /\ value.k = "dict") =>
    /\ EntriesConform(value, target_type) => result.res = value
    /\ ~EntriesConform(value, target_type) => IsRaise(result.res) /\ result.res.err = "TypeError"

(***************************************************************************)
(* C14  The core unpackers and the unpackers of the caller.                *)
(***************************************************************************)
IsCoreKind(t) == t.t = "gen" /\ t.origin \in {"list", "tuple", "dict"}

\* C14: for a target shape of kind list, tuple or dict the validation
\* accepts the same values with and without the unpackers of the caller:
\* the raw value and the value the parser returns get the same answer from
\* _is_valid under CORE_UNPACKERS + unpackers as under CORE_UNPACKERS.
C14_CoreValidationFixed ==
  (Done /\ IsCoreKind(target_type)) =>
    /\ _is_valid(value, target_type, AllUnpackers) = _is_valid(value, target_type, CORE_UNPACKERS)
    /\ Ok => _is_valid(result.res, target_type, AllUnpackers) = _is_valid(result.res, target_type, CORE_UNPACKERS)

(***************************************************************************)
(* C15  Configuration that overrides a core unpacker.                      *)
(***************************************************************************)
\* the unpacker answers for targets of kind list, tuple or dict
AnswersForCoreKind(unpacker) ==
  \E t \in {ListOf(TInt), TupleOf(<<TInt>>), DictOf(TStr, TInt)} :
    ApplyUnpacker(unpacker, VInt(0), t) # NoMatch

\* C15: a factory call whose unpackers answer for a core generic kind is
\* rejected by the factory itself (LookupError), so no factory, no parser
\* and no parse result ever exists with such an unpacker.
C15_CoreOverrideRejected ==
  pc # "start" => \A i \in 1..Len(unpackers) : ~AnswersForCoreKind(unpackers[i])

(***************************************************************************)
(* C16  A generic kind without an unpacker.                                *)
(***************************************************************************)
\* t is a parameterized generic and no unpacker of the parser answers for
\* its kind: it is not a core kind and the caller supplied no unpacker
Unregistered(t) == t.t = "gen" /\ ~IsCoreKind(t) /\ unpackers = <<>>

\* C16: a field whose shape is a parameterized generic of a kind without a
\* registered unpacker fails with TypeError naming the field and the
\* generic shape, for every raw value present and every converter chain
\* (the fields before it resolving): the validation accepts no value for
\* such a shape.
C16_FailClosed ==
  /\ RecordParse =>
       \A i \in 1..Len(Fields) :
         (Unregistered(FieldType(i)) /\ Present(value, i) /\ EarlierResolve(value, i))
           => /\ result.res = Raise("TypeError", FieldName(i), FieldType(i))
              /\ FieldOutcome(value, i).res = Raise("TypeError", FieldName(i), FieldType(i))
  /\ Done =>
       /\ _is_valid(value, TBox, CORE_UNPACKERS) = "false"
       /\ _is_valid(BoxV, TBox, CORE_UNPACKERS) = "false"
       /\ Ok => _is_valid(result.res, TBox, CORE_UNPACKERS) = "false"

\* a converter of the caller hands a Box instance to a field of shape
\* Box[int]; no unpacker knows Box and the field is refused
C16_Witness ==
  /\ RecordParse /\ target_type = TMock /\ unpackers = <<>>
  /\ Len(converters) = 6 /\ converters[1].name = "ident"
  /\ Present(value, 1) /\ Present(value, 2) /\ Raw(value, 2) = BoxV
  /\ result.res = Raise("TypeError", "b", TBox)

(***************************************************************************)
(* C17  A sequence with one element for a field that is not a sequence.    *)
(***************************************************************************)
IsScalarShape(t) == t \in {TInt, TStr}

\* C17: under the default converters a field of scalar shape whose raw
\* value is a list with exactly one element, the element conforming to the
\* shape, resolves to that element (the fields before it resolving, the
\* element is the field's value in the record).
C17_SingleElementUnwrapped ==
  (RecordParse /\ DefaultParser) =>
    \A i \in 1..Len(Fields) :
      (/\ IsScalarShape(FieldType(i)) /\ Present(value, i)
       /\ Raw(value, i).k = "list" /\ Len(Raw(value, i).items) = 1
       /\ IsInstance(Raw(value, i).items[1], FieldType(i)) = "true")
        => /\ FieldOutcome(value, i).res = Raw(value, i).items[1]
           /\ (EarlierResolve(value, i) /\ Ok) => getattr(result.res, FieldName(i)) = Raw(value, i).items[1]

(***************************************************************************)
(* C18  Round trip.                                                        *)
(***************************************************************************)
\* the field values of a resolved record put back into a mapping keyed by
\* field name
Reencode(obj) == VDict([i \in 1..Len(Fields) |-> <<KeyOf(FieldName(i)), getattr(obj, FieldName(i))>>])

\* the record again is built and equal, field by field, to the record first
SameRecord(again, first) ==
  /\ ~IsRaise(again)
  /\ again.k = "obj" /\ again.cls = first.cls
  /\ \A i \in 1..Len(Fields) : getattr(again, FieldName(i)) = getattr(first, FieldName(i))

\* C18: whenever a record shape applied to a raw mapping resolves with the
\* default converters, the mapping made of the resolved record's field
\* values, parsed with the same shape and the same parser, resolves too, to
\* a record with the same value in every declared field.
C18_RoundTrip ==
  (RecordParse /\ DefaultParser /\ Ok) =>
    SameRecord(parse_required(target_type, Reencode(result.res), converters, unpackers).res, result.res)

\* a Holder whose field a resolves to an Address record: the mapping parsed
\* the second time holds the record where the first one held a mapping
C18_Witness ==
  /\ RecordParse /\ DefaultParser /\ Ok
  /\ target_type = THolder
  /\ value = VDict(<< <<KeyOf("a"), VDict(<< <<KeyOf("a"), VStr(<<"x">>)>> >>)>>,
                      <<KeyOf("b"), VList(<<NoneV>>)>> >>)
  /\ Reencode(result.res) # value
  /\ getattr(result.res, "a") = VObj("Address", << <<"a", VStr(<<"x">>)>> >>)
  /\ SameRecord(parse_required(target_type, Reencode(result.res), converters, unpackers).res, result.res)

\* the round trip with the parser of get_parser(): no caller-supplied
\* unpackers either.  It holds; the failures of C18_RoundTrip all involve a
\* caller-supplied unpacker and a field of the caller's generic class.
C18_RoundTripPlain ==
  (RecordParse /\ DefaultParser /\ unpackers = <<>> /\ Ok) =>
    SameRecord(parse_required(target_type, Reencode(result.res), converters, unpackers).res, result.res)

(***************************************************************************)
(* C19  The built record: declared fields only.                            *)
(***************************************************************************)
\* every declared field is a key of the raw mapping and its raw value
\* conforms to the declared shape
AllPresentAndConforming ==
  \A i \in 1..Len(Fields) : Present(value, i) /\ Conforms(Raw(value, i), FieldType(i))

\* names the class body sets without declaring them as fields
UndeclaredClassAttributes ==
  {n \in {ClassAttributes(target_type.name)[j][1] : j \in 1..Len(ClassAttributes(target_type.name))} :
     ~HasAttr(Fields, n)}

\* C19: when a parser of get_parser() applies a record shape to a raw
\* mapping that holds a conforming value for every declared field, the
\* parse succeeds with an instance of the record class whose attributes are
\* exactly the declared fields, in declaration order, each with the value
\* the field resolves to (the raw value itself for a field of shape int or
\* str); no other key of the raw mapping becomes an attribute, and a name
\* the class body sets without declaring it still reads as the class's
\* value.
C19_DeclaredFieldsOnly ==
  (RecordParse /\ DefaultParser /\ AllPresentAndConforming) =>
    /\ Ok
    /\ result.res.k = "obj" /\ result.res.cls = target_type.name
    /\ result.res.attrs = [i \in 1..Len(Fields) |-> <<FieldName(i), FieldOutcome(value, i).res>>]
    /\ \A i \in 1..Len(Fields) :
         /\ getattr(result.res, FieldName(i)) = FieldOutcome(value, i).res
         /\ IsScalarShape(FieldType(i)) => getattr(result.res, FieldName(i)) = Raw(value, i)
    /\ \A j \in 1..Len(value.entries) :
         (\A i \in 1..Len(Fields) : value.entries[j][1] # KeyOf(FieldName(i)))
           => \A n \in {"a", "b"} : value.entries[j][1] = KeyOf(n) => ~HasAttr(result.res.attrs, n)
    /\ \A n \in UndeclaredClassAttributes :
         getattr(result.res, n) = AttrOf(ClassAttributes(target_type.name), n)

\* an Address from a mapping with the declared key "a" and the undeclared
\* key "b": b is not set and reads as the class attribute
C19_Witness ==
  /\ RecordParse /\ DefaultParser /\ AllPresentAndConforming
  /\ target_type = TAddress
  /\ value = VDict(<< <<KeyOf("a"), VStr(<<"x">>)>>, <<KeyOf("b"), VStr(<<"x">>)>> >>)
  /\ result.res = VObj("Address", << <<"a", VStr(<<"x">>)>> >>)
  /\ getattr(result.res, "b") = VStr(<<"y">>)

\* the scenario of the specification: both fields of a Person
C19_WitnessPerson ==
  /\ RecordParse /\ DefaultParser /\ AllPresentAndConforming
  /\ target_type = TPerson
  /\ value = VDict(<< <<KeyOf("a"), VStr(<<"x">>)>>, <<KeyOf("b"), VInt(1)>> >>)
  /\ result.res = VObj("Person", << <<"a", VStr(<<"x">>)>>, <<"b", VInt(1)>> >>)

\* the same with every field resolving: what is left of C19 when the union
\* alternatives of C9 are kept out.  It holds.
C19_BuiltFromResolvedFields ==
  (RecordParse /\ \A i \in 1..Len(Fields) : ~IsRaise(FieldOutcome(value, i).res)) => C19_DeclaredFieldsOnly

(***************************************************************************)
(* C20  A mapping is never accepted for a scalar field.                    *)
(***************************************************************************)
\* C20: with a parser of get_parser(), a record field of shape int or str
\* whose raw value is a mapping fails with a TypeError naming the field and
\* its shape, and the parse fails with it when the fields before resolve;
\* in particular the field never resolves to a value that is not the raw
\* value.
C20_ScalarFieldRejectsMapping ==
  (RecordParse /\ DefaultParser) =>
    \A i \in 1..Len(Fields) :
      (IsScalarShape(FieldType(i)) /\ Present(value, i) /\ Raw(value, i).k = "dict")
        => /\ FieldOutcome(value, i).res = Raise("TypeError", FieldName(i), FieldType(i))
           /\ EarlierResolve(value, i) => result.res = Raise("TypeError", FieldName(i), FieldType(i))

(***************************************************************************)
(* C21  Construction failure.                                              *)
(***************************************************************************)
\* the failure is a TypeError or a KeyError naming a field of the data
IsFieldFailure(r) == IsRaise(r) /\ r.err \in {"TypeError", "KeyError"} /\ r.key \in {"a", "b"}
\* what the record shape t resolves the mapping m to, on its own
RecordOutcome(t, m) == parse(t, m, converters, AllUnpackers, <<>>).res
\* the record shapes among the candidates of field i whose construction
\* fails for the raw mapping of the field
FailingBuilders(d, i) ==
  {c \in {Candidates(FieldType(i))[j] : j \in 1..Len(Candidates(FieldType(i)))} :
     IsRecord(c) /\ IsConstructionFailure(RecordOutcome(c, Raw(d, i)))}

\* C21: with a parser of get_parser(), when the class of a record rejects
\* the construction although every field of the record resolved, the
\* caller receives that construction failure and not a failure naming a
\* field: at the root, and for a record held in a field of the root record
\* (the fields before it resolving), where the enclosing field does not
\* turn it into its own TypeError.
C21_ConstructionFailureDistinct ==
  (RecordParse /\ DefaultParser) =>
    /\ IsConstructionFailure(RecordOutcome(target_type, value))
         => result.res = RecordOutcome(target_type, value) /\ ~IsFieldFailure(result.res)
    /\ \A i \in 1..Len(Fields) :
         (Present(value, i) /\ Raw(value, i).k = "dict" /\ EarlierResolve(value, i))
           => \A c \in FailingBuilders(value, i) :
                /\ result.res = RecordOutcome(c, Raw(value, i))
                /\ ~IsFieldFailure(result.res)

(***************************************************************************)
(* C22  Termination.                                                       *)
(***************************************************************************)
\* the number of nodes of a raw value: the value, its elements, keys,
\* values and characters
RECURSIVE Nodes(_), NodesOfItems(_, _), NodesOfEntries(_, _)
NodesOfItems(items, i) == IF i > Len(items) THEN 0 ELSE Nodes(items[i]) + NodesOfItems(items, i + 1)
NodesOfEntries(entries, i) ==
  IF i > Len(entries) THEN 0
  ELSE Nodes(entries[i][1]) + Nodes(entries[i][2]) + NodesOfEntries(entries, i + 1)
Nodes(v) ==
  CASE v.k = "str" -> 1 + Len(v.s)
    [] v.k \in {"list", "tuple"} -> 1 + NodesOfItems(v.items, 1)
    [] v.k = "dict" -> 1 + NodesOfEntries(v.entries, 1)
    [] v.k = "obj" -> 1 + NodesOfItems([j \in 1..Len(v.attrs) |-> v.attrs[j][2]], 1)
    [] OTHER -> 1

\* the number of nodes of a target shape, the declared fields of a record
\* class included; finite for the classes of RecordClasses, none of which
\* holds itself
RECURSIVE ShapeNodes(_), ShapeNodesOfArgs(_, _), ShapeNodesOfFields(_, _)
ShapeNodesOfArgs(args, i) == IF i > Len(args) THEN 0 ELSE ShapeNodes(args[i]) + ShapeNodesOfArgs(args, i + 1)
ShapeNodesOfFields(fields, i) == IF i > Len(fields) THEN 0 ELSE ShapeNodes(fields[i][2]) + ShapeNodesOfFields(fields, i + 1)
ShapeNodes(t) ==
  CASE t.t = "cls" -> 1 + ShapeNodesOfFields(Annotations(t.name), 1)
    [] t.t \in {"gen", "union"} -> 1 + ShapeNodesOfArgs(t.args, 1)
    [] OTHER -> 1

\* a value of the raw data or built by the parser
IsValue(r) == r.k \in {"int", "str", "none", "list", "tuple", "dict", "obj", "ellipsis"}

\* C22: a parse call of a parser of get_parser() comes to an end with
\* exactly one outcome, a value or one raised failure, and the converter
\* invocations made on the way are finitely many: at most one per converter
\* of the chain for every pair of a node of the target shape and a node of
\* the raw value.
C22_Terminates ==
  (Done /\ DefaultParser) =>
    /\ (IsValue(result.res) /\ ~IsRaise(result.res)) \/ (IsRaise(result.res) /\ ~IsValue(result.res))
    /\ Len(result.log) <= Len(converters) * ShapeNodes(target_type) * Nodes(value)

\* a parse that walks a record, a nested record and a list to the end
C22_Witness ==
  /\ Done /\ DefaultParser /\ Ok
  /\ target_type = THolder
  /\ value = VDict(<< <<KeyOf("a"), VDict(<< <<KeyOf("a"), VStr(<<"x">>)>> >>)>>,
                      <<KeyOf("b"), VList(<<NoneV>>)>> >>)
  /\ Len(result.log) > 2 * Len(converters)

(***************************************************************************)
(* C23  All or nothing.                                                    *)
(***************************************************************************)
\* the class of the root record was called to build its instance: the
\* parse ends with the instance or with the failure the class raised
RootBuilderInvoked ==
  \/ ~IsRaise(result.res) /\ result.res.k = "obj" /\ result.res.cls = target_type.name
  \/ IsConstructionFailure(result.res) /\ result.res.typ = target_type

\* C23: when a record shape is applied to a raw mapping, the class of the
\* record is called only if every declared field resolved; when a field
\* fails the caller receives the failure of the first failing field and no
\* instance, and an instance the caller receives holds every declared
\* field.
C23_AllOrNothing ==
  RecordParse =>
    /\ RootBuilderInvoked => FailingFields(value) = {}
    /\ FailingFields(value) # {} =>
         /\ IsRaise(result.res) /\ ~RootBuilderInvoked
         /\ result.res = FieldOutcome(value, FirstFailing(value)).res
    /\ Ok => /\ result.res.k = "obj"
             /\ \A i \in 1..Len(Fields) : HasAttr(result.res.attrs, FieldName(i))

\* the first field of a Person resolves and the second fails: no Person
C23_Witness ==
  /\ RecordParse /\ DefaultParser
  /\ target_type = TPerson
  /\ value = VDict(<< <<KeyOf("a"), VStr(<<"x">>)>>, <<KeyOf("b"), VStr(<<"x">>)>> >>)
  /\ ~IsRaise(FieldOutcome(value, 1).res)
  /\ result.res = Raise("TypeError", "b", TInt)

\* Guarded rejects every construction; with a failing field the failure
\* is the field's, so the class was not called
C23_WitnessBuilder ==
  /\ RecordParse /\ DefaultParser
  /\ target_type = TGuarded
  /\ value = VDict(<< <<KeyOf("a"), VInt(0)>> >>)
  /\ result.res = Raise("TypeError", "a", TStr)

(***************************************************************************)
(* C24  Tuple and list converters and raw values that are no sequences.    *)
(***************************************************************************)
IsListShape(t) == t.t = "gen" /\ t.origin = "list"
\* the list and tuple shapes among the candidates of field i
SequenceCandidates(i) ==
  {c \in {Candidates(FieldType(i))[j] : j \in 1..Len(Candidates(FieldType(i)))} : IsListShape(c) \/ IsTupleShape(c)}

\* C24: with a parser of get_parser(), for a record field of list or tuple
\* shape whose raw value is a mapping or a string, convert_tuple and
\* convert_list answer NoMatch and the field fails with the TypeError
\* naming it; the mapping is not taken apart into its keys nor the string
\* into its characters.
C24_SequencesOnly ==
  (RecordParse /\ DefaultParser) =>
    \A i \in 1..Len(Fields) :
      (SequenceCandidates(i) # {} /\ Present(value, i) /\ Raw(value, i).k \in {"dict", "str"})
        => /\ \A c \in SequenceCandidates(i) :
                /\ convert_tuple(Raw(value, i), c) = NoMatch
                /\ convert_list(Raw(value, i), c) = NoMatch
           /\ FieldOutcome(value, i).res = Raise("TypeError", FieldName(i), FieldType(i))

(***************************************************************************)
(* C25  Container kinds.                                                   *)
(***************************************************************************)
\* the kind of container the shape t asks for; "" for any other shape
KindOf(t) ==
  IF IsListShape(t) THEN "list" ELSE IF IsTupleShape(t) THEN "tuple" ELSE IF IsMapShape(t) THEN "dict" ELSE ""

\* C25: whatever converters the caller supplies, a value the parser
\* returns for a list shape is a list, for a tuple shape a tuple and for a
\* map shape a mapping, at the root and in a record field; a container of
\* another kind coming from a converter is rejected by the validation.
C25_ContainerKind ==
  (Done /\ Ok) =>
    /\ KindOf(target_type) # "" => result.res.k = KindOf(target_type)
    /\ RecordParse =>
         \A i \in 1..Len(Fields) :
           (KindOf(FieldType(i)) # "" /\ HasAttr(result.res.attrs, FieldName(i)))
             => getattr(result.res, FieldName(i)).k = KindOf(FieldType(i))

(***************************************************************************)
(* C26  Element-wise resolution of lists and tuples.                       *)
(***************************************************************************)
\* the shape of position j of a raw sequence with n elements under the
\* list or tuple shape t
SlotShape(t, j) == IF FixedTuple(t) THEN t.args[j] ELSE t.args[1]
\* the default converters return a continuation for t and the raw list or
\* tuple v: a list shape, a variadic tuple, a fixed tuple of that length
PairsUp(t, v) ==
  /\ v.k \in {"list", "tuple"}
  /\ IsListShape(t) \/ VariadicTuple(t) \/ (FixedTuple(t) /\ Len(t.args) = Len(v.items))
SlotOutcome(t, v, j) == ElementOutcome(SlotShape(t, j), v.items[j])
FailingSlots(t, v) == {j \in 1..Len(v.items) : IsRaise(SlotOutcome(t, v, j).res)}
\* the converter invocations made for the elements 1..n, in order
RECURSIVE LogOfSlots(_, _, _)
LogOfSlots(t, v, n) == IF n = 0 THEN <<>> ELSE LogOfSlots(t, v, n - 1) \o SlotOutcome(t, v, n).log
\* what the parser of the list or tuple shape t has to give for v
ElementWise(t, v, res, log) ==
  /\ FailingSlots(t, v) = {} =>
       /\ res.k = KindOf(t)
       /\ Len(res.items) = Len(v.items)
       /\ \A j \in 1..Len(v.items) : res.items[j] = SlotOutcome(t, v, j).res
       /\ log = _try_converters(v, t, converters, <<>>).log \o LogOfSlots(t, v, Len(v.items))
  /\ \A j \in FailingSlots(t, v) :
       (\A h \in FailingSlots(t, v) : j <= h)
         => /\ IsRaise(res)
            /\ log = _try_converters(v, t, converters, <<>>).log \o LogOfSlots(t, v, j)

\* C26: with a parser of get_parser(), a list or tuple shape applied to a
\* raw list or tuple resolves element by element: position j is handed to
\* the parser of the shape of position j (the element shape of a list or a
\* variadic tuple, slot j of a fixed tuple), positions are taken in order,
\* the result has the length of the raw sequence and holds at position j
\* what that parser returned, null included; the first failing element
\* ends the parse.  The same holds for a record field of such a shape.
C26_ElementWise ==
  /\ (Done /\ DefaultParser /\ PairsUp(target_type, value))
       => /\ ElementWise(target_type, value, result.res, result.log)
          /\ FailingSlots(target_type, value) # {} => IsRaise(result.res)
  /\ (RecordParse /\ DefaultParser) =>
       \A i \in 1..Len(Fields) :
         (Present(value, i) /\ PairsUp(FieldType(i), Raw(value, i)))
           => ElementWise(FieldType(i), Raw(value, i), FieldOutcome(value, i).res, FieldOutcome(value, i).log)

\* the scenario of the specification: ["Rudy", null] under
\* List[Optional[string]]
C26_Witness ==
  /\ Done /\ DefaultParser
  /\ target_type = ListOf(Optional(TStr))
  /\ value = VList(<<VStr(<<"x">>), NoneV>>)
  /\ result.res = VList(<<VStr(<<"x">>), NoneV>>)

\* a fixed tuple pairs slot j with element j
C26_WitnessTuple ==
  /\ Done /\ DefaultParser
  /\ target_type = TupleOf(<<TInt, TStr>>)
  /\ value = VList(<<VInt(0), VStr(<<"x">>)>>)
  /\ result.res = VTuple(<<VInt(0), VStr(<<"x">>)>>)

(***************************************************************************)
(* C27  What the validation accepts for a list, tuple or map shape.        *)
(***************************************************************************)
\* direct type check of an element against its declared shape
ElemConforms(e, a) == IsInstance(e, a) = "true"
\* the law of the validation for the list, tuple or map shape t
Accepted(v, t) ==
  CASE FixedTuple(t) ->
         /\ IsIterable(v) /\ Len(Iterate(v)) = Len(t.args)
         /\ \A j \in 1..Len(t.args) : ElemConforms(Iterate(v)[j], t.args[j])
    [] VariadicTuple(t) \/ IsListShape(t) ->
         /\ IsIterable(v)
         /\ \A j \in 1..Len(Iterate(v)) : ElemConforms(Iterate(v)[j], t.args[1])
    [] IsMapShape(t) ->
         /\ v.k = "dict"
         /\ \A j \in 1..Len(v.entries) : ElemConforms(v.entries[j][1], t.args[1]) /\ ElemConforms(v.entries[j][2], t.args[2])
    [] OTHER -> FALSE
\* what the converters, a continuation included, produce for the root
Produced == _parse_value(value, <<target_type>>, converters, CORE_UNPACKERS, <<>>).res

\* C27: with the validators of the package (no caller-supplied unpackers),
\* the validation accepts a value for a fixed tuple shape iff it has as many
\* elements as the shape has slots and element j conforms to slot j, for a
\* variadic tuple or a list shape iff every element conforms to the element
\* shape, for a map shape iff it is a mapping whose keys conform to the key
\* shape and whose values conform to the value shape.  A value the
\* converters produce for such a root shape, by a continuation or directly,
\* is returned when it is accepted and makes the parse fail with the bare
\* TypeError when it is not.
C27_ValidationLaw ==
  (pc = "done" /\ KindOf(target_type) # "") =>
    /\ (_is_valid(value, target_type, CORE_UNPACKERS) = "true") <=> Accepted(value, target_type)
    /\ (unpackers = <<>> /\ value.k # "dict" /\ ~IsRaise(Produced)) =>
         /\ Accepted(Produced, target_type) => result.res = Produced
         /\ ~Accepted(Produced, target_type) => result.res = BareTypeError

\* the continuation of a caller-supplied converter gives (0,) for
\* tuple[int, str]: one element for two slots, so the parse fails
C27_Witness ==
  /\ Done /\ unpackers = <<>>
  /\ converters[1].name = "lazy"
  /\ target_type = TupleOf(<<TInt, TStr>>) /\ value = VInt(0)
  /\ Produced = VTuple(<<VInt(0)>>)
  /\ result.res = BareTypeError

\* the same continuation under tuple[int, ...]: accepted and returned
C27_WitnessAccepted ==
  /\ Done /\ unpackers = <<>>
  /\ converters[1].name = "lazy"
  /\ target_type = VarTupleOf(TInt) /\ value = VInt(0)
  /\ result.res = VTuple(<<VInt(0)>>)

(***************************************************************************)
(* C28  Rating-based selection of the earlier engine.  The properties look *)
(* at the state in which the parser of get_parser_default has returned or  *)
(* raised (pc = "rated_done").                                             *)
(***************************************************************************)
RatedDone == pc = "rated_done"
\* the parser is one of get_parser_default: the defaults close the tuple
WithDefaults ==
  /\ Len(value_parsers) >= 2
  /\ SubSeq(value_parsers, Len(value_parsers) - 1, Len(value_parsers)) = DEFAULT_VALUE_PARSERS
IsScalarValue(v) == v.k \in {"int", "str", "none"}
\* the rating parser i gives to the pair; a parser that cannot rate the
\* pair counts as 0
Rating(i, s, t) == IF MatchRaises(value_parsers[i], s, t) THEN 0 ELSE match(value_parsers[i], s, t)
\* the earliest parser among those with the highest rating
BestIndex(s, t) ==
  CHOOSE i \in 1..Len(value_parsers) :
    /\ \A j \in 1..Len(value_parsers) : Rating(j, s, t) <= Rating(i, s, t)
    /\ \A j \in 1..(i - 1) : Rating(j, s, t) < Rating(i, s, t)
\* match(s, t) was called on every parser, once, in the order of the tuple
AllCalledOnce(log, s, t) == log = [i \in 1..Len(value_parsers) |-> MatchCall(i, value_parsers[i], s, t)]
\* what the selection has to give for the scalar v and the target t: the
\* TypeError when the best rating is 0, else what the best parser returns,
\* checked against the target as _parse_flat does
Selected(v, t, optional) ==
  IF Rating(BestIndex(TypeOf(v), t), TypeOf(v), t) = 0 THEN BareTypeError
  ELSE CheckFlat(R(ParseBy(value_parsers[BestIndex(TypeOf(v), t)], v), <<>>), t, optional).res
RootType == _get_optional_or_orig(target_type).type
\* the selection for the scalar at the root
RootSelection ==
  /\ AllCalledOnce(result.log, TypeOf(value), RootType)
  /\ result.res = Selected(value, RootType, _get_optional_or_orig(target_type).optional)
\* the selection for the scalar of field i of the record
FieldSelection(i) ==
  /\ AllCalledOnce(_parse_key(value, FieldName(i), FieldType(i), value_parsers, <<>>).log, TypeOf(Raw(value, i)), FieldType(i))
  /\ _parse_key(value, FieldName(i), FieldType(i), value_parsers, <<>>).res
       = WrapError(R(Selected(Raw(value, i), FieldType(i), FALSE), <<>>), FieldName(i), FieldType(i)).res
  /\ Rating(BestIndex(TypeOf(Raw(value, i)), FieldType(i)), TypeOf(Raw(value, i)), FieldType(i)) = 0
       => _parse_key(value, FieldName(i), FieldType(i), value_parsers, <<>>).res = Raise("TypeError", FieldName(i), FieldType(i))

\* C28: with a parser of get_parser_default, for a scalar raw value (at
\* the root or in a record field) match(type of the value, target type) is
\* called exactly once on every value parser, the supplied ones first and
\* then the defaults; the value is parsed by the parser with the highest
\* rating, the earliest one among equal ratings; when the highest rating is
\* 0 the parse fails with TypeError, naming the field for a record field.
C28_RatingSelection ==
  (RatedDone /\ WithDefaults) =>
    /\ IsScalarValue(value) => RootSelection
    /\ (IsRecord(target_type) /\ value.k = "dict") =>
         \A i \in 1..Len(Fields) : (Present(value, i) /\ IsScalarValue(Raw(value, i))) => FieldSelection(i)

\* the same for target types that are classes: it holds
C28_RatingSelectionForClasses ==
  (RatedDone /\ WithDefaults) =>
    /\ (IsScalarValue(value) /\ RootType.t = "cls") => RootSelection
    /\ (IsRecord(target_type) /\ value.k = "dict") =>
         \A i \in 1..Len(Fields) :
           (Present(value, i) /\ IsScalarValue(Raw(value, i)) /\ FieldType(i).t = "cls") => FieldSelection(i)

\* the test "use best match": parsers rated 1 and 2, the one rated 2 parses
C28_Witness ==
  /\ RatedDone
  /\ value_parsers = <<AgeParser(1, 2), AgeParser(2, 3)>> \o DEFAULT_VALUE_PARSERS
  /\ target_type = TAge /\ value = VInt(1)
  /\ Len(result.log) = 4
  /\ result.res = VSubInt("Age", 3)

\* equal ratings: the earliest parser, a supplied one before the defaults
C28_WitnessEqual ==
  /\ RatedDone
  /\ value_parsers = <<AgeParser(1, 2), AgeParser(1, 3)>> \o DEFAULT_VALUE_PARSERS
  /\ target_type = TInt /\ value = VInt(1)
  /\ result.res = VSubInt("Age", 2)

(***************************************************************************)
(* C29  Record classes that refer to themselves (SpecLinked).              *)
(***************************************************************************)
SelfReferential(t) == t \in {TNode, TChain, TTree}
\* a raw mapping a Node can be built from: "a" is a str, "n" is omitted,
\* null or such a mapping again
RECURSIVE ConformingNode(_)
ConformingNode(v) ==
  /\ v.k = "dict"
  /\ HasKey(v, KeyOf("a")) /\ GetItem(v, KeyOf("a")).k = "str"
  /\ HasKey(v, KeyOf("n")) =>
       \/ GetItem(v, KeyOf("n")) = NoneV
       \/ ConformingNode(GetItem(v, KeyOf("n")))
\* the Node instances the mapping stands for, one per nesting level
RECURSIVE NodeOf(_)
NodeOf(v) ==
  VObj("Node", << <<"a", GetItem(v, KeyOf("a"))>>,
                  <<"n", IF HasKey(v, KeyOf("n")) /\ GetItem(v, KeyOf("n")) # NoneV
                         THEN NodeOf(GetItem(v, KeyOf("n"))) ELSE NoneV>> >>)
\* the nesting depth of a raw mapping along key "n"
RECURSIVE LinkDepth(_)
LinkDepth(v) ==
  IF v.k # "dict" THEN 0
  ELSE IF ~HasKey(v, KeyOf("n")) THEN 1
  ELSE IF GetItem(v, KeyOf("n")).k = "list" /\ Len(GetItem(v, KeyOf("n")).items) > 0
    THEN 1 + LinkDepth(GetItem(v, KeyOf("n")).items[1])
  ELSE 1 + LinkDepth(GetItem(v, KeyOf("n")))

C29_WitnessTree ==
  /\ Done /\ DefaultParser
  /\ target_type = TTree
  /\ LinkDepth(value) >= 2
  /\ Ok
  /\ result.res.attrs[2][2].k = "list"
  /\ Len(result.res.attrs[2][2].items) = 1

(***************************************************************************)
(* C30  The parser of a factory never returns null.                        *)
(***************************************************************************)
\* what parse(value) of _get_parser gives before parse_required looks at it
RootResolution == parse(target_type, value, converters, AllUnpackers, <<>>)
\* what the converters make of the raw value v for the shape t
Resolution(v, t) == _parse_value(v, Candidates(t), converters, AllUnpackers, <<>>)
\* the raw value of the nullable field i, null when it is omitted
RawOrNull(d, i) == IF Present(d, i) THEN Raw(d, i) ELSE NoneV
\* positions of a raw list that hold null
NullSlots(v) == {j \in 1..Len(v.items) : v.items[j] = NoneV}

\* C30: the callable of get_parser and get_parser_with_no_defaults never
\* returns null: whenever the resolution of the root value gives null, as
\* it does for a null raw value and an Optional root shape under the
\* default converters, it raises TypeError (without naming a field); the
\* same null as the resolution of a nullable record field or of an Optional
\* element of a list is no failure: the field or the element is null in
\* the value that is returned.
C30_RootNeverNull ==
  Done =>
    /\ result.res # NoneV
    /\ RootResolution.res = NoneV => result = R(BareTypeError, RootResolution.log)
    /\ RootResolution.res # NoneV => result = RootResolution
    /\ (value.k # "dict" /\ Resolution(value, target_type).res = NoneV) => result.res = BareTypeError
    /\ (DefaultParser /\ value = NoneV /\ Nullable(target_type)) =>
         RootResolution.res = NoneV /\ result.res = BareTypeError
    /\ RecordParse =>
         \A i \in NullableFields :
           Resolution(RawOrNull(value, i), FieldType(i)).res = NoneV =>
             /\ FieldOutcome(value, i).res = NoneV
             /\ Ok => Attr(result.res, FieldName(i)) = NoneV
    /\ (IsListShape(target_type) /\ Nullable(target_type.args[1]) /\ value.k = "list") =>
         \A j \in NullSlots(value) :
           Resolution(NoneV, target_type.args[1]).res = NoneV =>
             /\ ElementOutcome(target_type.args[1], NoneV).res = NoneV
             /\ (DefaultParser /\ Ok) => result.res.items[j] = NoneV

\* a null raw value for the root shape Optional[int]: TypeError
C30_Witness ==
  /\ Done
  /\ target_type = Optional(TInt) /\ value = NoneV
  /\ RootResolution.res = NoneV
  /\ result.res = BareTypeError

\* the same null under nullable fields and under an Optional list element
C30_WitnessField ==
  /\ RecordParse /\ Ok
  /\ target_type = Cls("OptPerson")
  /\ value = VDict(<< <<KeyOf("a"), NoneV>> >>)
  /\ Attr(result.res, "a") = NoneV /\ Attr(result.res, "b") = NoneV
C30_WitnessElement ==
  /\ Done /\ Ok /\ DefaultParser
  /\ target_type = ListOf(Optional(TStr))
  /\ value = VList(<<NoneV, VStr(<<"x">>)>>)
  /\ result.res = VList(<<NoneV, VStr(<<"x">>)>>)
====
